---- MODULE Spec2Model ----
(***************************************************************************)
(* A model of oper (elektronenhirn/oper): the commit classifier            *)
(* (src/model.rs, Classifier) and the concurrent multi-repository scan     *)
(* (src/model.rs, MultiRepoHistory::from).                                 *)
(*                                                                         *)
(* Strings are sequences of characters; a character is a one-token string. *)
(* "U+00C9" and "U+00E9" stand for the non-ASCII letters E-acute, upper    *)
(* and lower case.  An Option<T> is a record [some, val].                  *)
(***************************************************************************)
EXTENDS Integers, Sequences, FiniteSets, TLC

\* ------------------------------------------------------------------ bounds
\* commit ages of the classifier specification range over -MaxDays..MaxDays days
MaxDays == 3
\* number of repositories of project.list
NumRepos == 2
\* rayon::current_num_threads()
NumWorkers == 2
\* the repositories and the threads of the pool where rayon's splitting of
\* the work is modelled
PoolNumRepos == 17
PoolNumThreads == 2
\* num_cpus::get() ranges over 1..MaxCpus
MaxCpus == 20
\* the repositories of a scan where only the number of busy threads is followed
ThreadsNumRepos == 20
\* number of commits of the repository whose revwalk is modelled
WalkCommits == 4
\* number of commits of the snapshots that are written to a report
MaxReportCommits == 2
\* number of custom commands of the configurations that are serialized
MaxCommands == 2
\* number of items of the table view
MaxItems == 3
\* number of columns of the table view whose columns are inserted and removed
MaxColumns == 3
\* number of lines of the list view
MaxLines == 3
\* the events on the list view are followed while its focus is at most this
MaxFocus == 20

\* ------------------------------------------------------- program constants
\* chrono::Duration::num_days: seconds per day
DaySecs == 86400
\* half of the width of u32: a u32 is modelled as <<high 16 bits, low 16 bits>>
W16 == 65536
\* main.rs:31
MAX_NUMBER_OF_THREADS == 18
\* main_view.rs: the widths of the columns of the commit table
COLUMN_WIDTH_COMMIT_DATE == 22
COLUMN_WIDTH_REPO_NAME == 15
COLUMN_WIDTH_COMITTER == 17
COLUMN_WIDTH_SUBJECT == 50

\* ---------------------------------------------------------------- options
None == [some |-> FALSE, val |-> <<>>]
Some(v) == [some |-> TRUE, val |-> v]
\* Option::unwrap_or
unwrap_or(o, d) == IF o.some THEN o.val ELSE d

\* ---------------------------------------------------------------- strings
\* char::to_ascii_lowercase: only A-Z are folded
char_to_ascii_lowercase(c) ==
    CASE c = "A" -> "a"
      [] c = "B" -> "b"
      [] OTHER -> c

\* char::to_lowercase (Unicode): folds non-ASCII letters too
char_to_lowercase(c) ==
    CASE c = "A" -> "a"
      [] c = "B" -> "b"
      [] c = "U+00C9" -> "U+00E9"
      [] OTHER -> c

\* str::to_ascii_lowercase
to_ascii_lowercase(s) == [i \in 1..Len(s) |-> char_to_ascii_lowercase(s[i])]

\* str::to_lowercase
to_lowercase(s) == [i \in 1..Len(s) |-> char_to_lowercase(s[i])]

\* str::contains(pattern): pattern occurs as a contiguous substring
contains(s, pat) ==
    \E i \in 0..(Len(s) - Len(pat)) : SubSeq(s, i + 1, i + Len(pat)) = pat

\* ------------------------------------------------------------------- time
\* Rust integer division truncates toward zero (TLA+ \div floors)
TruncDiv(a, b) == IF a >= 0 THEN a \div b ELSE -((-a) \div b)

\* utils::as_datetime_utc: the instant of a git2::Time is its seconds field;
\* the offset only changes the rendering
as_datetime_utc(git_time) == git_time.seconds

\* DateTime::signed_duration_since: a chrono Duration is [secs, nanos] with
\* nanos >= 0; the commit instant has no sub-second part
signed_duration_since(now, utc) == [secs |-> now.secs - utc, nanos |-> now.nanos]

\* chrono::Duration::num_seconds rounds toward zero
num_seconds(d) == IF d.secs < 0 /\ d.nanos > 0 THEN d.secs + 1 ELSE d.secs

\* chrono::Duration::num_days
num_days(d) == TruncDiv(num_seconds(d), DaySecs)

\* `x as u32` of an i64 x: the low 32 bits, as <<high half, low half>>
as_u32(x) == <<(x \div W16) % W16, x % W16>>

\* <= on u32
u32_le(a, b) == a[1] < b[1] \/ (a[1] = b[1] /\ a[2] <= b[2])

\* u32::MAX
U32Max == <<W16 - 1, W16 - 1>>

\* ------------------------------------------------------------- classifier
\* Classifier::new: only the message pattern is lower-cased
ClassifierNew(age, author, message) ==
    [age |-> age,
     author |-> author,
     message |-> IF message.some THEN Some(to_lowercase(message.val)) ELSE None]

\* the age test of Classifier::classify (model.rs:258-260)
age_include(self, commit, now) ==
    LET utc == as_datetime_utc(commit.time)
        diff == signed_duration_since(now, utc)
    IN  u32_le(as_u32(num_days(diff)), self.age)

\* the message test of Classifier::classify (model.rs:264-265)
message_include(message, commit) ==
    LET cm == to_ascii_lowercase(unwrap_or(commit.message, <<>>))
    IN  contains(cm, message)

\* a variant that also accepts the pattern in the author's email
author_include_name_or_email(author, commit) ==
    LET ca == to_ascii_lowercase(unwrap_or(commit.author_name, <<>>))
        ce == to_ascii_lowercase(unwrap_or(commit.author_email, <<>>))
    IN  contains(ca, author) \/ contains(ce, author)

\* the author test of Classifier::classify (model.rs:269-270)
author_include(author, commit) ==
    LET ca == to_ascii_lowercase(unwrap_or(commit.author_name, <<>>))
    IN  contains(ca, author)

\* a variant that takes abort from the final include flag
classify_abort_after_filters(self, commit, now) ==
    LET include0 == age_include(self, commit, now)
        include1 == IF self.message.some
                    THEN include0 /\ message_include(self.message.val, commit)
                    ELSE include0
        include2 == IF self.author.some
                    THEN include1 /\ author_include(self.author.val, commit)
                    ELSE include1
    IN  [include |-> include2, abort |-> ~include2]

\* a variant whose author filter assigns the flag instead of and-ing it
classify_author_overrides(self, commit, now) ==
    LET include0 == age_include(self, commit, now)
        abort == ~include0
        include1 == IF self.message.some
                    THEN include0 /\ message_include(self.message.val, commit)
                    ELSE include0
        include2 == IF self.author.some
                    THEN author_include(self.author.val, commit)
                    ELSE include1
    IN  [include |-> include2, abort |-> abort]

\* Classifier::classify: (include, abort)
classify(self, commit, now) ==
    LET include0 == age_include(self, commit, now)
        abort == ~include0
        include1 == IF self.message.some
                    THEN include0 /\ message_include(self.message.val, commit)
                    ELSE include0
        include2 == IF self.author.some
                    THEN include1 /\ author_include(self.author.val, commit)
                    ELSE include1
    IN  [include |-> include2, abort |-> abort]

\* ------------------------------------------------------------------ state
VARIABLES
    args,        \* the command line: [days, author, message] (main.rs:99-104)
    classifier,  \* Option<Classifier>: the classifier built from args
    now,         \* chrono::Utc::now(), as [secs, nanos]
    subject,     \* Option<Commit>: the commit last handed to classify
    verdict,     \* Option<(include, abort)>: what classify returned for it
    repos,       \* the Vec<Arc<Repo>> handed to MultiRepoHistory::from
    disk,        \* per repository: what git2 finds at its abs_path
    todo,        \* indices of repos that par_iter has not handed to a worker yet
    worker,      \* per rayon thread: where it is in the closure of filter_map
    results,     \* per repository: whether its closure returned, and what
    bars,        \* per rayon thread: its ProgressBar [message, position]
    printed,     \* the lines written with progress.println
    classified,  \* per repository: the walk positions handed to classify
    unresolved,  \* per repository: the walk positions whose id was not found
    history,     \* Option<MultiRepoHistory>: what from returned
    do_main,     \* [pool, exit]: the global rayon pool and how do_main left
    scans,       \* per repository: how often the closure was started on it
    returns,     \* how often from has returned a MultiRepoHistory
    registry,    \* the rayon registry: injected jobs, deques and stacks of the threads
    threadpool,  \* the global pool by numbers: cpus, threads, closures running
    git_revwalk, \* one git2 revwalk: the commit graph, the strategy, the ids yielded
    report,      \* one call of report::generate: path, commits, builder, files
    config,      \* one Config on its way through serialize and deserialize
    table,       \* one TableView<T, H>
    list_view,   \* one ListView, the pane of the DiffView
    siv          \* the Cursive root of ui::show: views and global callbacks

clsVars == <<args, classifier, now, subject, verdict>>
scanVars == <<repos, disk, todo, worker, results, bars, printed, classified,
              unresolved, history, do_main, scans, returns>>
sideVars == <<registry, threadpool, git_revwalk, report, config, table, list_view, siv>>
vars == <<args, classifier, now, subject, verdict, repos, disk, todo, worker,
          results, bars, printed, classified, unresolved, history, do_main,
          scans, returns, registry, threadpool, git_revwalk, report, config, table, list_view, siv>>

\* ----------------------------------------------------------------- inputs
NowSecs == 100 * DaySecs
Nows == {[secs |-> NowSecs, nanos |-> n] : n \in {0, 500 * 1000 * 1000}}

\* a git2::Commit as far as the program reads it
Commit(id, time, author_name, author_email, committer, summary, message) ==
    [id |-> id, time |-> time, author_name |-> author_name,
     author_email |-> author_email, committer |-> committer,
     summary |-> summary, message |-> message]

\* git2::Time
Time(seconds, offset_minutes) == [seconds |-> seconds, offset_minutes |-> offset_minutes]

\* --days: 0..MaxDays-1 and u32::MAX
ClsAges == {as_u32(d) : d \in 0..(MaxDays - 1)} \cup {U32Max}
\* --author
ClsAuthorPatterns == {None, Some(<<>>), Some(<<"a">>), Some(<<"A">>), Some(<<"a", "b">>)}
\* --message
ClsMessagePatterns == {None, Some(<<"a">>), Some(<<"A">>), Some(<<"U+00C9">>)}
ClsArgs == [days : ClsAges, author : ClsAuthorPatterns, message : ClsMessagePatterns]

\* commit times from MaxDays days after now to MaxDays days (and almost one
\* more) before now, on and next to the day boundaries
ClsTimes ==
    {Time(NowSecs - (d * DaySecs + e), 0) : d \in (-MaxDays)..MaxDays, e \in {0, DaySecs - 1}}
ClsNames == {None, Some(<<"a">>), Some(<<"A">>), Some(<<"A", "b">>), Some(<<"b">>), Some(<<"b", "a">>)}
ClsEmails == {None, Some(<<"b">>), Some(<<"a", "b">>)}
ClsMessages == {None, Some(<<"a">>), Some(<<"b">>), Some(<<"A", "b">>), Some(<<"U+00C9">>)}
ClsCommits ==
    {Commit(1, t, n, e, None, m, m) : t \in ClsTimes, n \in ClsNames, e \in ClsEmails, m \in ClsMessages}

\* ------------------------------------------------------------- the scan
Repos == 1..NumRepos
Workers == 1..NumWorkers

\* Repo::from: repository i of project.list; its relative path is one
\* component of i characters, its description the file name of abs_path
RepoFrom(abs_path, rel_path) ==
    [abs_path |-> abs_path, rel_path |-> rel_path, description |-> abs_path[Len(abs_path)]]
\* main.rs repos_from: base_folder.join(rel_path) for each line of project.list
repos_from(n) ==
    [i \in 1..n |-> LET name == [k \in 1..i |-> "r"]
                    IN  RepoFrom(<<"base", name>>, <<name>>)]

\* commit times of the scanned repositories: whole days before now
DaysAgo(d, offset_minutes) == Time(NowSecs - d * DaySecs, offset_minutes)
C0 == Commit(100, DaysAgo(0, 0), Some(<<"a">>), Some(<<"a">>), Some(<<"a">>), Some(<<"a">>), Some(<<"a">>))
C1 == Commit(101, DaysAgo(1, 0), Some(<<"a", "b">>), Some(<<"b">>), Some(<<"b", "b">>), Some(<<"a">>), Some(<<"a">>))
C2 == Commit(102, DaysAgo(2, 0), Some(<<"b">>), Some(<<"a">>), Some(<<"b">>), Some(<<"b">>), Some(<<"b">>))
C5 == Commit(105, DaysAgo(5, 0), Some(<<"b">>), Some(<<"b">>), Some(<<"b">>), Some(<<"b">>), Some(<<"b">>))
C5East == Commit(115, DaysAgo(5, 120), Some(<<"A">>), Some(<<"a">>), None, None, None)
C40 == Commit(140, DaysAgo(40, 0), Some(<<"a">>), Some(<<"a">>), Some(<<"a">>), Some(<<"a">>), Some(<<"a">>))
CFuture == Commit(199, DaysAgo(-2, 0), Some(<<"a">>), Some(<<"a">>), Some(<<"a">>), Some(<<"a">>), Some(<<"a">>))

\* what the revwalk of a repository yields, in order: Some(commit) for an id
\* that find_commit resolves, None for one it does not
Walks ==
    {<<Some(C0), Some(C5), Some(C40)>>,
     <<Some(C1), Some(C2)>>,
     <<Some(C0), None, Some(C5)>>,
     <<Some(C5East), Some(C40), None>>,
     <<Some(C40), Some(C0)>>,
     <<Some(CFuture), Some(C1)>>}

\* what git2 finds at a repository's path
Disk(open, revwalk, push_head, walk) ==
    [open |-> open, revwalk |-> revwalk, push_head |-> push_head, walk |-> walk]
DiskStates ==
    {Disk(FALSE, FALSE, FALSE, <<>>), Disk(TRUE, FALSE, FALSE, <<>>),
     Disk(TRUE, TRUE, FALSE, <<>>)}
    \cup {Disk(TRUE, TRUE, TRUE, w) : w \in Walks}

\* the command lines of the scans
ScanArgs ==
    {[days |-> as_u32(10), author |-> a, message |-> None] : a \in {None, Some(<<"a">>)}}

Idle == [pc |-> "idle", repo |-> 0, commits |-> <<>>, pos |-> 0]
NotReturned == [returned |-> FALSE, out |-> None]
Returned(out) == [returned |-> TRUE, out |-> out]

\* a variant that hands every commit to the first repository
RepoCommitFrom_first_repo(repo, commit) ==
    [repo |-> 1,
     timestamp |-> commit.time,
     summary |-> unwrap_or(commit.summary, <<"N", "o", "n", "e">>),
     author |-> unwrap_or(commit.author_name, <<"N", "o", "n", "e">>),
     committer |-> unwrap_or(commit.committer, <<"N", "o", "n", "e">>),
     commit_id |-> commit.id,
     message |-> unwrap_or(commit.message, <<>>)]

\* RepoCommit::from
RepoCommitFrom(repo, commit) ==
    [repo |-> repo,
     timestamp |-> commit.time,
     summary |-> unwrap_or(commit.summary, <<"N", "o", "n", "e">>),
     author |-> unwrap_or(commit.author_name, <<"N", "o", "n", "e">>),
     committer |-> unwrap_or(commit.committer, <<"N", "o", "n", "e">>),
     commit_id |-> commit.id,
     message |-> unwrap_or(commit.message, <<>>)]

\* Ord for git2::Time: by seconds, then by offset
time_cmp(a, b) ==
    CASE a.seconds < b.seconds -> "Less"
      [] a.seconds > b.seconds -> "Greater"
      [] a.offset_minutes < b.offset_minutes -> "Less"
      [] a.offset_minutes > b.offset_minutes -> "Greater"
      [] OTHER -> "Equal"

\* Ordering::reverse
reverse(o) == CASE o = "Less" -> "Greater" [] o = "Greater" -> "Less" [] OTHER -> o

by_timestamp_ascending(a, b) == time_cmp(a.timestamp, b.timestamp)

\* the comparator of model.rs:116
by_timestamp_reversed(a, b) == reverse(time_cmp(a.timestamp, b.timestamp))

\* sort_unstable_by: every arrangement of s that the comparator accepts; the
\* order among elements that compare Equal is not specified
RECURSIVE sort_pick(_, _)
sort_pick(s, left) ==
    IF left = {} THEN {<<>>}
    ELSE UNION {{<<s[i]>> \o t : t \in sort_pick(s, left \ {i})} :
                i \in {j \in left : \A k \in left : by_timestamp_reversed(s[j], s[k]) # "Greater"}}
sort_unstable_by(s) == sort_pick(s, DOMAIN s)

\* a variant that collects nothing once one closure returned None
RECURSIVE flatten_all_or_nothing(_, _)
flatten_all_or_nothing(res, n) ==
    IF n = 0 \/ \E i \in 1..n : ~res[i].out.some THEN <<>>
    ELSE flatten_all_or_nothing(res, n - 1) \o res[n].out.val

\* a variant that keeps only the list of the last closure that returned Some
RECURSIVE flatten_collect_last_wins(_, _)
flatten_collect_last_wins(res, n) ==
    IF n = 0 THEN <<>>
    ELSE IF res[n].out.some THEN res[n].out.val
    ELSE flatten_collect_last_wins(res, n - 1)

\* flatten().collect(): the lists of the closures that returned Some, in the
\* order of repos
RECURSIVE flatten_collect(_, _)
flatten_collect(res, n) ==
    IF n = 0 THEN <<>>
    ELSE flatten_collect(res, n - 1) \o (IF res[n].out.some THEN res[n].out.val ELSE <<>>)

\* iter().map(len).max().unwrap_or(0)
max_len(lens) ==
    IF lens = {} THEN 0 ELSE CHOOSE y \in lens : \A z \in lens : z <= y

\* no scan is running (the classifier is exercised on its own)
NoScan ==
    /\ repos = <<>>
    /\ disk = <<>>
    /\ todo = {}
    /\ worker = [w \in Workers |-> Idle]
    /\ results = <<>>
    /\ bars = [w \in Workers |-> [message |-> <<>>, position |-> 0]]
    /\ printed = {}
    /\ classified = <<>>
    /\ unresolved = <<>>
    /\ history = None
    /\ do_main = [pool |-> "unbuilt", exit |-> "running"]
    /\ scans = <<>>
    /\ returns = 0

\* no classifier is in use
NoCls ==
    /\ args = None
    /\ classifier = None
    /\ now = None
    /\ subject = None
    /\ verdict = None

\* none of the other parts of the program is exercised
NoSide ==
    /\ registry = None
    /\ threadpool = None
    /\ git_revwalk = None
    /\ report = None
    /\ config = None
    /\ table = None /\ list_view = None /\ siv = None

\* do_main is entered (main.rs:129-131); project.list and the repositories
\* are what they are
Init ==
    /\ args \in ScanArgs
    /\ classifier = Some(ClassifierNew(args.days, args.author, args.message))
    /\ now \in {n \in Nows : n.nanos = 0}
    /\ subject = None
    /\ verdict = None
    /\ repos = repos_from(NumRepos)
    /\ disk \in [Repos -> DiskStates]
    /\ todo = Repos
    /\ worker = [w \in Workers |-> Idle]
    /\ results = [r \in Repos |-> NotReturned]
    /\ bars = [w \in Workers |-> [message |-> <<>>, position |-> 0]]
    /\ printed = {}
    /\ classified = [r \in Repos |-> {}]
    /\ unresolved = [r \in Repos |-> {}]
    /\ history = None
    /\ do_main = [pool |-> "unbuilt", exit |-> "running"]
    /\ scans = [r \in Repos |-> 0]
    /\ returns = 0
    /\ NoSide

\* a variant in which every thread writes the label of the first slot
set_message_first_slot(w, msg) == [bars EXCEPT ![1].message = msg]

set_message(w, msg) == [bars EXCEPT ![w].message = msg]
println(r, text) == printed \cup {[rel_path |-> repos[r].rel_path, text |-> text]}

\* a variant in which a closure that returns None discards what the closures
\* before it returned
Return_none_discards(w, r, out) ==
    /\ results' = [x \in Repos |->
                      IF x = r THEN Returned(out)
                      ELSE IF ~out.some /\ results[x].returned THEN Returned(None)
                      ELSE results[x]]
    /\ worker' = [worker EXCEPT ![w] = Idle]

\* a variant in which a returning closure resets the results of the others
Return_resets_others(w, r, out) ==
    /\ results' = [x \in Repos |-> IF x = r THEN Returned(out) ELSE NotReturned]
    /\ worker' = [worker EXCEPT ![w] = Idle]

\* a variant in which the closure never gets to return
Return_blocks(w, r, out) == UNCHANGED <<results, worker>>

\* the closure returns `out` for repository r on thread w
Return(w, r, out) ==
    /\ results' = [results EXCEPT ![r] = Returned(out)]
    /\ worker' = [worker EXCEPT ![w] = Idle]

\* main.rs:132-135: ThreadPoolBuilder::build_global().unwrap(): the pool is
\* built, or the unwrap panics
BuildGlobal ==
    /\ do_main.pool = "unbuilt"
    /\ \/ do_main' = [pool |-> "built", exit |-> "running"]
       \/ do_main' = [pool |-> "failed", exit |-> "panicked"]
    /\ UNCHANGED <<repos, disk, todo, worker, results, bars, printed, classified,
                   unresolved, history, scans, returns>>
    /\ UNCHANGED <<clsVars, sideVars>>

\* a variant in which a repository stays available after it was handed out
Take_keeps_todo(w) ==
    /\ do_main.pool = "built"
    /\ worker[w].pc = "idle"
    /\ \E r \in todo :
        /\ scans' = [scans EXCEPT ![r] = @ + 1]
        /\ worker' = [worker EXCEPT ![w] = [pc |-> "open", repo |-> r, commits |-> <<>>, pos |-> 0]]
        /\ bars' = set_message(w, <<"Scanning", repos[r].rel_path>>)
    /\ UNCHANGED <<repos, disk, todo, results, printed, classified, unresolved, history,
                   do_main, returns>>
    /\ UNCHANGED <<clsVars, sideVars>>

\* model.rs:41-44: a rayon thread starts the closure on a repository
Take(w) ==
    /\ do_main.pool = "built"
    /\ worker[w].pc = "idle"
    /\ \E r \in todo :
        /\ todo' = todo \ {r}
        /\ scans' = [scans EXCEPT ![r] = @ + 1]
        /\ worker' = [worker EXCEPT ![w] = [pc |-> "open", repo |-> r, commits |-> <<>>, pos |-> 0]]
        /\ bars' = set_message(w, <<"Scanning", repos[r].rel_path>>)
    /\ UNCHANGED <<repos, disk, results, printed, classified, unresolved, history,
                   do_main, returns>>
    /\ UNCHANGED <<clsVars, sideVars>>

\* model.rs:45-80: Repository::open, git_repo.revwalk(), set_sorting and
\* revwalk.push_head(); the first of them that fails ends the closure
OpenAndSeed(w) ==
    /\ worker[w].pc = "open"
    /\ LET r == worker[w].repo IN
        \/ /\ ~disk[r].open
           /\ printed' = println(r, "Failed to open")
           /\ bars' = set_message(w, <<"Idle">>)
           /\ Return(w, r, None)
        \/ /\ disk[r].open /\ ~disk[r].revwalk
           /\ printed' = println(r, "Failed to create revwalk")
           /\ bars' = set_message(w, <<"Idle">>)
           /\ Return(w, r, None)
        \/ /\ disk[r].open /\ disk[r].revwalk /\ ~disk[r].push_head
           /\ printed' = println(r, "Failed to query history")
           /\ bars' = set_message(w, <<"Idle">>)
           /\ Return(w, r, None)
        \/ /\ disk[r].open /\ disk[r].revwalk /\ disk[r].push_head
           /\ worker' = [worker EXCEPT ![w].pc = "walk", ![w].pos = 1]
           /\ UNCHANGED <<results, bars, printed>>
    /\ UNCHANGED <<repos, disk, todo, classified, unresolved, history, do_main, scans, returns>>
    /\ UNCHANGED <<clsVars, sideVars>>

\* a variant of the loop that never breaks
loop_never_breaks(v) == FALSE

\* model.rs:101-104: the loop over the revwalk breaks on abort
loop_breaks(v) == v.abort

\* model.rs:106-108: after the loop
LoopExit(w, r, commits) ==
    /\ bars' = [bars EXCEPT ![w].position = @ + 1, ![w].message = <<"Idle">>]
    /\ Return(w, r, Some(commits))

\* model.rs:82, 106-108: the revwalk is exhausted
WalkEnd(w) ==
    /\ worker[w].pc = "walk"
    /\ worker[w].pos > Len(disk[worker[w].repo].walk)
    /\ LoopExit(w, worker[w].repo, worker[w].commits)
    /\ UNCHANGED <<repos, disk, todo, printed, classified, unresolved, history, do_main, scans, returns>>
    /\ UNCHANGED <<clsVars, sideVars>>

\* model.rs:83-95: the next id cannot be resolved to a commit
FindCommitFails(w) ==
    /\ worker[w].pc = "walk"
    /\ LET r == worker[w].repo
           pos == worker[w].pos
       IN  /\ pos <= Len(disk[r].walk)
           /\ ~disk[r].walk[pos].some
           /\ unresolved' = [unresolved EXCEPT ![r] = @ \cup {pos}]
           /\ printed' = println(r, "Failed to find commit")
           /\ bars' = set_message(w, <<"Idle">>)
           /\ Return(w, r, None)
    /\ UNCHANGED <<repos, disk, todo, classified, history, do_main, scans, returns>>
    /\ UNCHANGED <<clsVars, sideVars>>

\* model.rs:96-105: the next commit is classified
ClassifyNext(w) ==
    /\ worker[w].pc = "walk"
    /\ LET r == worker[w].repo
           pos == worker[w].pos
       IN  /\ pos <= Len(disk[r].walk)
           /\ disk[r].walk[pos].some
           /\ LET commit == disk[r].walk[pos].val
                  v == classify(classifier.val, commit, now)
                  commits == IF v.include
                             THEN Append(worker[w].commits, RepoCommitFrom(r, commit))
                             ELSE worker[w].commits
              IN  /\ classified' = [classified EXCEPT ![r] = @ \cup {pos}]
                  /\ IF loop_breaks(v)
                     THEN LoopExit(w, r, commits)
                     ELSE /\ worker' = [worker EXCEPT ![w].commits = commits, ![w].pos = pos + 1]
                          /\ UNCHANGED <<results, bars>>
    /\ UNCHANGED <<repos, disk, todo, printed, unresolved, history, do_main, scans, returns>>
    /\ UNCHANGED <<clsVars, sideVars>>

\* a variant of collect that waits only until every repository is handed out
par_iter_dispatched == todo = {}

\* model.rs:39-111: collect() returns once the closure has returned for every
\* repository
par_iter_joined ==
    /\ todo = {}
    /\ \A r \in Repos : results[r].returned

\* a variant that keeps only the repositories that contributed commits
MultiRepoHistoryScannedOnly(rs, commits, max_width_repo, max_width_committer) ==
    [repos |-> SelectSeq(rs, LAMBDA repo :
                  \E i \in DOMAIN commits : rs[commits[i].repo] = repo),
     commits |-> commits,
     max_width_repo |-> max_width_repo,
     max_width_committer |-> max_width_committer]

\* model.rs:117-122: the struct literal; repos is the argument, moved in
MultiRepoHistory(rs, commits, max_width_repo, max_width_committer) ==
    [repos |-> rs,
     commits |-> commits,
     max_width_repo |-> max_width_repo,
     max_width_committer |-> max_width_committer]

\* model.rs:111-122: every closure has returned; collect, sort, return Ok
FromReturns ==
    /\ do_main.pool = "built"
    /\ ~history.some
    /\ par_iter_joined
    /\ LET collected == flatten_collect(results, NumRepos)
           max_width_repo == max_len({Len(repos[i].description) : i \in DOMAIN repos})
           max_width_committer == max_len({Len(collected[i].committer) : i \in DOMAIN collected})
       IN  \E sorted \in sort_unstable_by(collected) :
            history' = Some(MultiRepoHistory(repos, sorted, max_width_repo,
                                             max_width_committer))
    /\ returns' = returns + 1
    /\ UNCHANGED <<repos, disk, todo, worker, results, bars, printed, classified,
                   unresolved, do_main, scans>>
    /\ UNCHANGED <<clsVars, sideVars>>

Next ==
    \/ BuildGlobal
    \/ \E w \in Workers :
        \/ Take(w)
        \/ OpenAndSeed(w)
        \/ WalkEnd(w)
        \/ FindCommitFails(w)
        \/ ClassifyNext(w)
    \/ FromReturns

Spec == Init /\ [][Next]_vars

\* ------------------------------------------------- the scan, scheduled fairly
\* repositories for the fair scan: one that cannot be opened, and walks that
\* end in an unresolvable id, at the end of the revwalk, and in an abort
LiveDisks ==
    {Disk(FALSE, FALSE, FALSE, <<>>),
     Disk(TRUE, TRUE, TRUE, <<Some(C0), None>>),
     Disk(TRUE, TRUE, TRUE, <<Some(C1)>>),
     Disk(TRUE, TRUE, TRUE, <<Some(C0), Some(C40)>>)}

LiveInit ==
    /\ args \in {a \in ScanArgs : ~a.author.some}
    /\ classifier = Some(ClassifierNew(args.days, args.author, args.message))
    /\ now \in {n \in Nows : n.nanos = 0}
    /\ subject = None
    /\ verdict = None
    /\ repos = repos_from(NumRepos)
    /\ disk \in [Repos -> LiveDisks]
    /\ todo = Repos
    /\ worker = [w \in Workers |-> Idle]
    /\ results = [r \in Repos |-> NotReturned]
    /\ bars = [w \in Workers |-> [message |-> <<>>, position |-> 0]]
    /\ printed = {}
    /\ classified = [r \in Repos |-> {}]
    /\ unresolved = [r \in Repos |-> {}]
    /\ history = None
    /\ do_main = [pool |-> "unbuilt", exit |-> "running"]
    /\ scans = [r \in Repos |-> 0]
    /\ returns = 0
    /\ NoSide

\* model.rs:41-109: what the rayon thread w does next
WorkerStep(w) ==
    \/ Take(w)
    \/ OpenAndSeed(w)
    \/ WalkEnd(w)
    \/ FindCommitFails(w)
    \/ ClassifyNext(w)

\* the threads of the pool are operating-system threads: each one that can
\* take a step eventually does, and so does the thread that called from
LiveSpec ==
    /\ LiveInit
    /\ [][Next]_vars
    /\ WF_vars(BuildGlobal)
    /\ \A w \in Workers : WF_vars(WorkerStep(w))
    /\ WF_vars(FromReturns)

\* -------------------------------------------- the classifier on its own
ClsInit ==
    /\ args \in ClsArgs
    /\ now \in Nows
    /\ classifier = None
    /\ subject = None
    /\ verdict = None
    /\ NoScan
    /\ NoSide

\* main.rs:100-104: the classifier is built from the command line
NewClassifier ==
    /\ ~classifier.some
    /\ classifier' = Some(ClassifierNew(args.days, args.author, args.message))
    /\ UNCHANGED <<args, now, subject, verdict>>
    /\ UNCHANGED <<scanVars, sideVars>>

\* model.rs:96: one call of classify
ClassifyCommit ==
    /\ classifier.some
    /\ ~verdict.some
    /\ \E c \in ClsCommits :
        /\ subject' = Some(c)
        /\ verdict' = Some(classify(classifier.val, c, now))
    /\ UNCHANGED <<args, classifier, now>>
    /\ UNCHANGED <<scanVars, sideVars>>

ClsNext == NewClassifier \/ ClassifyCommit

ClsSpec == ClsInit /\ [][ClsNext]_vars

\* --------------------------- rayon: how par_iter hands the repositories out
\* repos.par_iter() drives a slice producer through rayon's
\* bridge_producer_consumer: helper() halves the slice with join_context as
\* long as the splitter allows and folds what is left, one element after the
\* other, on the thread that holds it
PoolRepos == 1..PoolNumRepos
PoolThreads == 1..PoolNumThreads

Job(lo, hi, splits) == [lo |-> lo, hi |-> hi, splits |-> splits]
Frame(kind, job, flag, cur) == [kind |-> kind, job |-> job, flag |-> flag, cur |-> cur]

\* Splitter::try_split: a stolen job splits again at least as often as there
\* are threads; a job that stayed at home splits while it has splits left
splitter_try_split(splits, stolen) ==
    IF stolen
    THEN [ok |-> TRUE,
          splits |-> IF PoolNumThreads > splits \div 2 THEN PoolNumThreads ELSE splits \div 2]
    ELSE IF splits > 0 THEN [ok |-> TRUE, splits |-> splits \div 2]
    ELSE [ok |-> FALSE, splits |-> splits]

\* LengthSplitter::try_split, with the minimal length 1 of a slice producer
try_split(len, splits, stolen) ==
    IF len \div 2 >= 1 THEN splitter_try_split(splits, stolen)
    ELSE [ok |-> FALSE, splits |-> splits]

\* the two halves helper() hands to join_context
split_at(job, splits) ==
    LET mid == (job.hi - job.lo + 1) \div 2
    IN  [a |-> Job(job.lo, job.lo + mid - 1, splits),
         b |-> Job(job.lo + mid, job.hi, splits)]

\* from is called on the main thread: the first helper() runs there, and its
\* join_context is injected into the pool
PoolInit ==
    /\ registry =
        [injected |-> <<split_at(Job(1, PoolNumRepos, 0),
                                 try_split(PoolNumRepos, PoolNumThreads, FALSE).splits)>>,
         deques |-> [w \in PoolThreads |-> <<>>],
         stacks |-> [w \in PoolThreads |-> <<>>],
         scanned |-> {},
         stalled |-> None]
    /\ NoCls
    /\ NoScan
    /\ threadpool = None
    /\ git_revwalk = None
    /\ report = None
    /\ config = None
    /\ table = None /\ list_view = None /\ siv = None

notRegistry == <<clsVars, scanVars, threadpool, git_revwalk, report, config, table, list_view, siv>>

\* thread w has not stalled
Runs(w) == ~(registry.stalled.some /\ registry.stalled.val.thread = w)
Top(w) == registry.stacks[w][Len(registry.stacks[w])]
Push(stack, frames) == stack \o frames
Pop(stack) == SubSeq(stack, 1, Len(stack) - 1)
\* the second half of the join on top of w's stack is still in w's own deque
AtHome(w) ==
    /\ registry.deques[w] # <<>>
    /\ registry.deques[w][Len(registry.deques[w])] = Top(w).job
\* every element of the job has been through the closure
Complete(job) == \A r \in job.lo..job.hi : r \in registry.scanned

\* an idle thread takes the injected join: it keeps the second half in its
\* deque and runs the first; both halves see context.migrated()
TakeInjected(w) ==
    /\ Runs(w)
    /\ registry.stacks[w] = <<>>
    /\ registry.injected # <<>>
    /\ LET j == Head(registry.injected)
       IN  registry' = [registry EXCEPT
                !.injected = Tail(@),
                !.deques[w] = Append(@, j.b),
                !.stacks[w] = <<Frame("join", j.b, TRUE, 0), Frame("helper", j.a, TRUE, 0)>>]
    /\ UNCHANGED notRegistry

\* helper(): split and join, or fold
Helper(w) ==
    /\ Runs(w)
    /\ registry.stacks[w] # <<>>
    /\ Top(w).kind = "helper"
    /\ LET job == Top(w).job
           sp == try_split(job.hi - job.lo + 1, job.splits, Top(w).flag)
           halves == split_at(job, sp.splits)
       IN  IF sp.ok
           THEN registry' = [registry EXCEPT
                    !.deques[w] = Append(@, halves.b),
                    !.stacks[w] = Push(Pop(@), <<Frame("join", halves.b, FALSE, 0),
                                                 Frame("helper", halves.a, FALSE, 0)>>)]
           ELSE registry' = [registry EXCEPT
                    !.stacks[w] = Push(Pop(@), <<Frame("fold", job, FALSE, job.lo)>>)]
    /\ UNCHANGED notRegistry

\* the fold calls the closure of filter_map on the next repository of the
\* job, and the closure returns
FoldNext(w) ==
    /\ Runs(w)
    /\ registry.stacks[w] # <<>>
    /\ Top(w).kind = "fold"
    /\ LET cur == Top(w).cur
       IN  registry' = [registry EXCEPT
                !.scanned = @ \cup {cur},
                !.stacks[w] = IF cur = Top(w).job.hi THEN Pop(@)
                              ELSE Push(Pop(@), <<Frame("fold", Top(w).job, FALSE, cur + 1)>>)]
    /\ UNCHANGED notRegistry

\* the closure does not return: the thread stalls inside the scan of the
\* repository it is at
Stall(w) ==
    /\ ~registry.stalled.some
    /\ registry.stacks[w] # <<>>
    /\ Top(w).kind = "fold"
    /\ registry' = [registry EXCEPT !.stalled = Some([thread |-> w, repo |-> Top(w).cur])]
    /\ UNCHANGED notRegistry

\* join_context after its first half: the second half is still in the own
\* deque and is run inline
JoinLocal(w) ==
    /\ Runs(w)
    /\ registry.stacks[w] # <<>>
    /\ Top(w).kind = "join"
    /\ AtHome(w)
    /\ registry' = [registry EXCEPT
            !.deques[w] = Pop(@),
            !.stacks[w] = Push(Pop(@), <<Frame("helper", Top(w).job, Top(w).flag, 0)>>)]
    /\ UNCHANGED notRegistry

\* join_context after its first half: the second half was stolen and its
\* latch is set
JoinDone(w) ==
    /\ Runs(w)
    /\ registry.stacks[w] # <<>>
    /\ Top(w).kind = "join"
    /\ ~AtHome(w)
    /\ Complete(Top(w).job)
    /\ registry' = [registry EXCEPT !.stacks[w] = Pop(@)]
    /\ UNCHANGED notRegistry

\* a thread without work of its own (idle, or waiting for a stolen second
\* half) steals the oldest job of another thread's deque
Steal(w) ==
    /\ Runs(w)
    /\ \/ registry.stacks[w] = <<>>
       \/ /\ registry.stacks[w] # <<>>
          /\ Top(w).kind = "join"
          /\ ~AtHome(w)
          /\ ~Complete(Top(w).job)
    /\ \E v \in PoolThreads \ {w} :
        /\ registry.deques[v] # <<>>
        /\ registry' = [registry EXCEPT
                !.deques[v] = Tail(@),
                !.stacks[w] = Push(@, <<Frame("helper", Head(registry.deques[v]), TRUE, 0)>>)]
    /\ UNCHANGED notRegistry

\* what thread w does as long as it is scheduled
ThreadStep(w) ==
    \/ TakeInjected(w)
    \/ Helper(w)
    \/ FoldNext(w)
    \/ JoinLocal(w)
    \/ JoinDone(w)
    \/ Steal(w)

PoolNext == \E w \in PoolThreads : ThreadStep(w) \/ Stall(w)

\* every thread that has not stalled is scheduled fairly
PoolSpec ==
    /\ PoolInit
    /\ [][PoolNext]_vars
    /\ \A w \in PoolThreads : WF_vars(ThreadStep(w))

\* ------------------------------------------- the size of the global pool
\* main.rs:132-135 builds the pool; from then on each of its threads runs the
\* closure of filter_map on one repository at a time (model.rs:41-109). The
\* threads are counted here, not told apart.
Cpus == 1..MaxCpus

min(a, b) == IF a <= b THEN a ELSE b

\* a variant without the ceiling
num_threads_uncapped(num_cpus) == num_cpus

\* main.rs:133: std::cmp::min(num_cpus::get(), MAX_NUMBER_OF_THREADS)
num_threads(num_cpus) == min(num_cpus, MAX_NUMBER_OF_THREADS)

ThreadsInit ==
    /\ threadpool \in {[num_cpus |-> c, threads |-> None, running |-> 0,
                        pending |-> ThreadsNumRepos, returned |-> 0] : c \in Cpus}
    /\ NoCls
    /\ NoScan
    /\ registry = None
    /\ git_revwalk = None
    /\ report = None
    /\ config = None
    /\ table = None /\ list_view = None /\ siv = None

notThreadpool == <<clsVars, scanVars, registry, git_revwalk, report, config, table, list_view, siv>>

\* main.rs:132-135: build_global() with num_threads threads
BuildPool ==
    /\ ~threadpool.threads.some
    /\ threadpool' = [threadpool EXCEPT !.threads = Some(num_threads(threadpool.num_cpus))]
    /\ UNCHANGED notThreadpool

\* model.rs:41: a thread of the pool that is not running the closure starts it
\* on a repository
ClosureStarts ==
    /\ threadpool.threads.some
    /\ threadpool.pending > 0
    /\ threadpool.running < threadpool.threads.val
    /\ threadpool' = [threadpool EXCEPT !.running = @ + 1, !.pending = @ - 1]
    /\ UNCHANGED notThreadpool

\* model.rs:54-108: the closure returns and its thread is free again
ClosureReturns ==
    /\ threadpool.threads.some
    /\ threadpool.running > 0
    /\ threadpool' = [threadpool EXCEPT !.running = @ - 1, !.returned = @ + 1]
    /\ UNCHANGED notThreadpool

ThreadsNext == BuildPool \/ ClosureStarts \/ ClosureReturns

ThreadsSpec == ThreadsInit /\ [][ThreadsNext]_vars

\* ------------------------------------------- the revwalk of one repository
\* a commit graph: commit c (1..WalkCommits, also its commit time) has the
\* parents Graph[c], the first parent first; parents are older than children
WalkIds == 1..WalkCommits
ParentLists(c) ==
    {<<>>} \cup {<<p>> : p \in 1..(c - 1)}
           \cup {pq \in (1..(c - 1)) \X (1..(c - 1)) : pq[1] # pq[2]}
Graphs == {g \in [WalkIds -> UNION {ParentLists(c) : c \in WalkIds}] :
              \A c \in WalkIds : g[c] \in ParentLists(c)}

\* main.rs:66-74: what --revwalk can be given as
StrategyArgs == {"first", "all", "other"}

\* main.rs:106-110
parse_revwalk_strategy(arg) ==
    CASE arg = "first" -> [ok |-> TRUE, val |-> "FirstParent"]
      [] arg = "all" -> [ok |-> TRUE, val |-> "AllParents"]
      [] OTHER -> [ok |-> FALSE, val |-> "Unknown revwalk strategy given"]

\* the commits git2's revwalk reaches from c: every parent is followed
RECURSIVE reachable(_, _)
reachable(g, c) ==
    {c} \cup UNION {reachable(g, g[c][i]) : i \in DOMAIN g[c]}

\* Sort::TIME: newest first
RECURSIVE sort_time(_)
sort_time(ids) ==
    IF ids = {} THEN <<>>
    ELSE LET newest == CHOOSE c \in ids : \A d \in ids : d <= c
         IN  <<newest>> \o sort_time(ids \ {newest})

\* model.rs:58-82: revwalk(), set_sorting(TIME), push_head() and the ids the
\* loop is given; the strategy is not consulted
revwalk_ids(g, head, strategy) == sort_time(reachable(g, head))

WalkInit ==
    /\ git_revwalk \in {[graph |-> g, arg |-> a, strategy |-> None, yielded |-> None] :
                           g \in Graphs, a \in StrategyArgs}
    /\ NoCls
    /\ NoScan
    /\ registry = None
    /\ threadpool = None
    /\ report = None
    /\ config = None
    /\ table = None /\ list_view = None /\ siv = None

notRevwalk == <<clsVars, scanVars, registry, threadpool, report, config, table, list_view, siv>>

\* main.rs:106-110: the command line is read; an unknown strategy ends main
ParseStrategy ==
    /\ ~git_revwalk.strategy.some
    /\ git_revwalk' = [git_revwalk EXCEPT !.strategy = Some(parse_revwalk_strategy(git_revwalk.arg))]
    /\ UNCHANGED notRevwalk

\* model.rs:58-82: the repository whose HEAD is the newest commit is walked
Revwalk ==
    /\ git_revwalk.strategy.some
    /\ git_revwalk.strategy.val.ok
    /\ ~git_revwalk.yielded.some
    /\ git_revwalk' = [git_revwalk EXCEPT
            !.yielded = Some(revwalk_ids(git_revwalk.graph, WalkCommits,
                                         git_revwalk.strategy.val.val))]
    /\ UNCHANGED notRevwalk

WalkNext == ParseStrategy \/ Revwalk

WalkSpec == WalkInit /\ [][WalkNext]_vars

\* ------------------------------------------------------------ the report
\* the decimal digits of n >= 0, most significant first
RECURSIVE Digits(_)
Digits(n) ==
    LET d == <<"0", "1", "2", "3", "4", "5", "6", "7", "8", "9">>[(n % 10) + 1]
    IN  IF n < 10 THEN <<d>> ELSE Append(Digits(n \div 10), d)

\* std::fmt of an integer with the flags `0` and width (and `+` if plus):
\* the sign comes first and counts in the width, zeros fill up to the width
fmt_int(n, width, plus) ==
    LET sign == IF n < 0 THEN <<"-">> ELSE IF plus THEN <<"+">> ELSE <<>>
        digits == Digits(IF n < 0 THEN -n ELSE n)
        fill == width - Len(sign) - Len(digits)
    IN  sign \o [i \in 1..(IF fill > 0 THEN fill ELSE 0) |-> "0"] \o digits

\* chrono NaiveDate of a day number counted from 1970-01-01 (proleptic
\* Gregorian calendar)
civil_from_days(days) ==
    LET z == days + 719468
        era == z \div 146097
        doe == z - era * 146097
        yoe == (doe - doe \div 1460 + doe \div 36524 - doe \div 146096) \div 365
        doy == doe - (365 * yoe + yoe \div 4 - yoe \div 100)
        mp == (5 * doy + 2) \div 153
        m == IF mp < 10 THEN mp + 3 ELSE mp - 9
    IN  [year |-> yoe + era * 400 + (IF m <= 2 THEN 1 ELSE 0),
         month |-> m,
         day |-> doy - (153 * mp + 2) \div 5 + 1]

\* utils::as_datetime: the instant `seconds` seen in the zone that is
\* offset_minutes east of UTC
as_datetime(git_time) ==
    LET local_minus_utc == git_time.offset_minutes * 60
        local == git_time.seconds + local_minus_utc
        date == civil_from_days(local \div DaySecs)
    IN  [year |-> date.year, month |-> date.month, day |-> date.day,
         hour |-> (local % DaySecs) \div 3600,
         minute |-> ((local % DaySecs) % 3600) \div 60,
         local_minus_utc |-> local_minus_utc]

\* chrono::Duration::num_hours and num_minutes of Duration::seconds(s)
num_hours(s) == TruncDiv(s, 3600)
num_minutes(s) == TruncDiv(s, 60)

\* RepoCommit::time_as_str:
\* "{:04}-{:02}-{:02} {:02}:{:02} {:+02}{:02}"
time_as_str(timestamp) ==
    LET date_time == as_datetime(timestamp)
        offset == date_time.local_minus_utc
    IN  fmt_int(date_time.year, 4, FALSE) \o <<"-">>
        \o fmt_int(date_time.month, 2, FALSE) \o <<"-">>
        \o fmt_int(date_time.day, 2, FALSE) \o <<" ">>
        \o fmt_int(date_time.hour, 2, FALSE) \o <<":">>
        \o fmt_int(date_time.minute, 2, FALSE) \o <<" ">>
        \o fmt_int(num_hours(offset), 2, TRUE)
        \o fmt_int(num_minutes(offset) - num_hours(offset) * 60, 2, FALSE)

\* Path::file_name: the last component of the path
file_name(path) ==
    LET slashes == {i \in 1..Len(path) : path[i] = "/"}
        last == IF slashes = {} THEN 0 ELSE CHOOSE i \in slashes : \A j \in slashes : j <= i
    IN  SubSeq(path, last + 1, Len(path))

\* a variant that takes the name of a dot file for an extension
extension_of_dot_file(path) ==
    LET file == file_name(path)
        dots == {i \in 1..Len(file) : file[i] = "."}
        last == CHOOSE i \in dots : \A j \in dots : j <= i
    IN  IF dots = {} THEN None ELSE Some(SubSeq(file, last + 1, Len(file)))

\* Path::extension: what follows the last dot of the file name; None if
\* there is no dot or only one leading the name
extension(path) ==
    LET file == file_name(path)
        dots == {i \in 1..Len(file) : file[i] = "."}
        last == CHOOSE i \in dots : \A j \in dots : j <= i
    IN  IF dots = {} \/ file = <<".", ".">> \/ last = 1
        THEN None
        ELSE Some(SubSeq(file, last + 1, Len(file)))

\* CommaSeperatedSpreadsheet: the csv::Writer holds the fields of the record
\* being written and the records terminated so far
CommaSeperatedSpreadsheet == [kind |-> "csv", record |-> <<>>, records |-> <<>>]
\* OdsXlsxSpreadsheet::new
OdsXlsxSpreadsheet(kind) ==
    [kind |-> kind, current_row |-> 0, current_column |-> 0, cells |-> {}]

\* CommaSeperatedSpreadsheet::add_cell: write_field
csv_add_cell(b, cell) == [b EXCEPT !.record = Append(@, cell)]
\* CommaSeperatedSpreadsheet::finish_row: write_record of no fields ends the
\* record
csv_finish_row(b) == [b EXCEPT !.records = Append(@, b.record), !.record = <<>>]

\* OdsXlsxSpreadsheet::add_cell
ods_add_cell(b, cell) ==
    [b EXCEPT !.cells = {c \in @ : ~(c.row = b.current_row /\ c.col = b.current_column)}
                        \cup {[row |-> b.current_row, col |-> b.current_column, value |-> cell]},
              !.current_column = @ + 1]

\* a variant that leaves the column where the row ended
ods_finish_row_keeps_column(b) == [b EXCEPT !.current_row = @ + 1]

\* OdsXlsxSpreadsheet::finish_row
ods_finish_row(b) == [b EXCEPT !.current_row = @ + 1, !.current_column = 0]

\* SpreadSheetBuilder::add_cell and finish_row
add_cell(b, cell) == IF b.kind = "csv" THEN csv_add_cell(b, cell) ELSE ods_add_cell(b, cell)
finish_row(b) == IF b.kind = "csv" THEN csv_finish_row(b) ELSE ods_finish_row(b)

\* model_into_spreadsheet: the cells of one row, then finish_row
RECURSIVE add_cells(_, _)
add_cells(b, cells) ==
    IF cells = <<>> THEN finish_row(b) ELSE add_cells(add_cell(b, Head(cells)), Tail(cells))

\* model_into_spreadsheet: the header
HeaderCells ==
    <<<<"C", "o", "m", "m", "i", "t", " ", "D", "a", "t", "e">>,
      <<"L", "o", "c", "a", "l", " ", "P", "a", "t", "h", " ", "o", "f", " ", "R", "e", "p", "o">>,
      <<"C", "o", "m", "m", "i", "t", " ", "A", "u", "t", "h", "o", "r">>,
      <<"S", "u", "m", "m", "a", "r", "y">>,
      <<"M", "e", "s", "s", "a", "g", "e">>>>

\* model_into_spreadsheet: the cells of a commit
CommitCells(model, commit) ==
    <<time_as_str(commit.timestamp), model.repos[commit.repo].rel_path,
      commit.author, commit.summary, commit.message>>

\* model_into_spreadsheet
RECURSIVE commit_rows(_, _, _)
commit_rows(model, b, commits) ==
    IF commits = <<>> THEN b
    ELSE commit_rows(model, add_cells(b, CommitCells(model, Head(commits))), Tail(commits))
model_into_spreadsheet(model, b) == commit_rows(model, add_cells(b, HeaderCells), model.commits)

\* what generate leaves behind: its result, the files on disk, and whether
\* the commits were read
Generated(result, files, read) == [result |-> result, files |-> files, read |-> read]
File(path, format, content) == [path |-> path, format |-> format, content |-> content]

\* generate_csv: CommaSeperatedSpreadsheet::new creates the file, write_to_disk
\* flushes the records
generate_csv(model, output_file_path, io_ok) ==
    IF ~io_ok THEN Generated("Err", {}, FALSE)
    ELSE Generated("Ok",
                   {File(output_file_path, "csv",
                         model_into_spreadsheet(model, CommaSeperatedSpreadsheet).records)},
                   TRUE)

\* generate_ods and generate_xlsx: the sheet is built in memory and written
\* at the end
generate_sheet(model, output_file_path, io_ok, kind) ==
    IF ~io_ok THEN Generated("Err", {}, TRUE)
    ELSE Generated("Ok",
                   {File(output_file_path, kind,
                         model_into_spreadsheet(model, OdsXlsxSpreadsheet(kind)).cells)},
                   TRUE)
generate_ods(model, output_file_path, io_ok) == generate_sheet(model, output_file_path, io_ok, "ods")
generate_xlsx(model, output_file_path, io_ok) == generate_sheet(model, output_file_path, io_ok, "xlsx")

\* report::generate
generate(model, output_file_path, io_ok) ==
    LET ext == extension(output_file_path)
    IN  CASE ~ext.some -> Generated("Err", {}, FALSE)
          [] ext = Some(<<"c", "s", "v">>) -> generate_csv(model, output_file_path, io_ok)
          [] ext = Some(<<"o", "d", "s">>) -> generate_ods(model, output_file_path, io_ok)
          [] ext = Some(<<"x", "l", "s", "x">>) -> generate_xlsx(model, output_file_path, io_ok)
          [] OTHER -> Generated("Err", {}, FALSE)

\* --report
ReportPaths ==
    {<<"r">>,
     <<"r", ".", "c", "s", "v">>,
     <<"r", ".", "o", "d", "s">>,
     <<"r", ".", "x", "l", "s", "x">>,
     <<"r", ".", "t", "x", "t">>,
     <<".", "c", "s", "v">>,
     <<"r", ".">>,
     <<"r", ".", "C", "S", "V">>,
     <<"r", ".", "c", "s", "v", ".", "o", "d", "s">>,
     <<"d", ".", "c", "s", "v", "/", "r">>,
     <<"d", "/", "r", ".", "x", "l", "s", "x">>,
     <<"c", "s", "v">>}

\* commit times in zones east and west of UTC, with and without a minutes part
ReportTimes ==
    {Time(NowSecs, 0), Time(NowSecs, 120), Time(1600000000, -210),
     Time(1600000000, 330), Time(NowSecs - 1, -30), Time(NowSecs, 30),
     Time(1600000000, 600), Time(NowSecs, -720), Time(1600041000, 840)}
ReportCommits ==
    {RepoCommitFrom(IF t.offset_minutes < 0 THEN 1 ELSE 2,
                    Commit(100, t, Some(<<"a">>), Some(<<"a">>), Some(<<"a">>),
                           IF t.offset_minutes = 0 THEN None ELSE Some(<<"b">>),
                           Some(<<"b", ",", "a">>))) : t \in ReportTimes}
ReportModels ==
    {MultiRepoHistory(repos_from(2), commits, 0, 0) :
        commits \in UNION {[1..n -> ReportCommits] : n \in 0..MaxReportCommits}}

ReportInit ==
    /\ NoCls /\ NoScan
    /\ registry = None /\ threadpool = None /\ git_revwalk = None
    /\ config = None /\ table = None /\ list_view = None /\ siv = None
    /\ report \in {[model |-> m, report_file_path |-> p, io_ok |-> ok, generated |-> None] :
                      m \in ReportModels, p \in ReportPaths, ok \in BOOLEAN}
notReport == <<clsVars, scanVars, registry, threadpool, git_revwalk, config, table, list_view, siv>>

\* main.rs: report::generate(&history, report_file_path)
Generate ==
    /\ ~report.generated.some
    /\ report' = [report EXCEPT
                    !.generated = Some(generate(report.model, report.report_file_path, report.io_ok))]
    /\ UNCHANGED notReport

ReportNext == Generate
ReportSpec == ReportInit /\ [][ReportNext]_vars

\* ------------------------------------------------------ the configuration
\* the lines of a TOML document, as far as the configuration uses them: a
\* string value is kept as the characters between its quotes
Comment == [kind |-> "comment"]
Blank == [kind |-> "blank"]
TableHeader(name) == [kind |-> "table", name |-> name]
Pair(key, raw) == [kind |-> "pair", key |-> key, raw |-> raw]
EmptyArray(key) == [kind |-> "empty_array", key |-> key]

\* config.rs DEFAULT_CONFIG
DEFAULT_CONFIG ==
    <<Blank,
      Comment,
      Comment,
      Comment,
      Comment,
      Comment,
      Comment,
      Comment,
      Comment,
      Blank,
      Comment,
      Comment,
      TableHeader(<<"c", "u", "s", "t", "o", "m", "_", "c", "o", "m", "m", "a", "n", "d">>),
      Pair(<<"k", "e", "y">>, <<"i">>),
      Pair(<<"e", "x", "e", "c", "u", "t", "a", "b", "l", "e">>, <<"g", "i", "t", "k">>),
      Pair(<<"a", "r", "g", "s">>, <<"-", "-", "s", "e", "l", "e", "c", "t", "-", "c", "o", "m", "m", "i", "t", "=", "{", "}">>),
      Blank,
      Comment,
      TableHeader(<<"c", "u", "s", "t", "o", "m", "_", "c", "o", "m", "m", "a", "n", "d">>),
      Pair(<<"k", "e", "y">>, <<"d">>),
      Pair(<<"e", "x", "e", "c", "u", "t", "a", "b", "l", "e">>, <<"g", "n", "o", "m", "e", "-", "t", "e", "r", "m", "i", "n", "a", "l">>),
      Pair(<<"a", "r", "g", "s">>, <<"-", "-", " ", "g", "i", "t", " ", "s", "h", "o", "w", " ", "{", "}">>)>>

\* struct CustomCommand, struct Config
CustomCommand(key, executable, cmd_args) ==
    [key |-> key, executable |-> executable, args |-> cmd_args]
Config(custom_command) == [custom_command |-> custom_command]

\* a variant that leaves the backslash as it is
RECURSIVE escape_quotes_only(_)
escape_quotes_only(s) ==
    IF s = <<>> THEN <<>>
    ELSE (CASE s[1] = "\"" -> <<"\\", "\"">>
            [] s[1] = "LF" -> <<"\\", "n">>
            [] OTHER -> <<s[1]>>) \o escape_quotes_only(Tail(s))

\* toml's serializer writes a string between double quotes, with a backslash
\* before a quote and a backslash, and \n for a line feed
RECURSIVE escape(_)
escape(s) ==
    IF s = <<>> THEN <<>>
    ELSE (CASE s[1] = "\"" -> <<"\\", "\"">>
            [] s[1] = "\\" -> <<"\\", "\\">>
            [] s[1] = "LF" -> <<"\\", "n">>
            [] OTHER -> <<s[1]>>) \o escape(Tail(s))

\* toml's reading of the characters between the quotes of a basic string:
\* None where the document is rejected (a bare quote or line feed, an unknown
\* or unfinished escape)
RECURSIVE unescape(_)
unescape(raw) ==
    IF raw = <<>> THEN Some(<<>>)
    ELSE IF raw[1] = "\\"
    THEN IF Len(raw) < 2 THEN None
         ELSE LET c == CASE raw[2] = "\"" -> Some("\"")
                         [] raw[2] = "\\" -> Some("\\")
                         [] raw[2] = "n" -> Some("LF")
                         [] OTHER -> None
                  rest == unescape(SubSeq(raw, 3, Len(raw)))
              IN  IF c.some /\ rest.some THEN Some(<<c.val>> \o rest.val) ELSE None
    ELSE IF raw[1] \in {"\"", "LF"} THEN None
    ELSE LET rest == unescape(Tail(raw))
         IN  IF rest.some THEN Some(<<raw[1]>> \o rest.val) ELSE None

\* Serialize for CustomCommand: one [[custom_command]] table; key is written
\* as a string of one character, args is left out when it is None
serialize_command(c) ==
    <<TableHeader(<<"c", "u", "s", "t", "o", "m", "_", "c", "o", "m", "m", "a", "n", "d">>),
      Pair(<<"k", "e", "y">>, escape(<<c.key>>)),
      Pair(<<"e", "x", "e", "c", "u", "t", "a", "b", "l", "e">>, escape(c.executable))>>
    \o (IF c.args.some THEN <<Pair(<<"a", "r", "g", "s">>, escape(c.args.val))>> ELSE <<>>)
    \o <<Blank>>

\* config.rs serialize: toml::to_string
RECURSIVE serialize_commands(_)
serialize_commands(cs) ==
    IF cs = <<>> THEN <<>> ELSE serialize_command(Head(cs)) \o serialize_commands(Tail(cs))
serialize(c) ==
    IF c.custom_command = <<>>
    THEN <<EmptyArray(<<"c", "u", "s", "t", "o", "m", "_", "c", "o", "m", "m", "a", "n", "d">>)>>
    ELSE serialize_commands(c.custom_command)

\* Result<Config, toml::de::Error>
Ok(v) == [ok |-> TRUE, val |-> v]
Err == [ok |-> FALSE, val |-> <<>>]

\* config.rs deserialize: toml::from_str. Each [[custom_command]] header opens
\* a command whose fields are the pairs up to the next header; key must be a
\* string of one character, executable must be there, args may be missing;
\* a repeated key and a missing custom_command are errors
deserialize(content) ==
    LET name == <<"c", "u", "s", "t", "o", "m", "_", "c", "o", "m", "m", "a", "n", "d">>
        headers == {i \in 1..Len(content) :
                       content[i].kind = "table" /\ content[i].name = name}
        empties == {i \in 1..Len(content) :
                       content[i].kind = "empty_array" /\ content[i].key = name}
        end(i) == IF \E j \in headers : j > i
                  THEN CHOOSE j \in headers : j > i /\ \A k \in headers : k > i => j <= k
                  ELSE Len(content) + 1
        field(i, key) == {j \in (i + 1)..(end(i) - 1) :
                             content[j].kind = "pair" /\ content[j].key = key}
        value(i, key) == unescape(content[CHOOSE j \in field(i, key) : TRUE].raw)
        keys(i) == {content[j].key : j \in {k \in (i + 1)..(end(i) - 1) : content[k].kind = "pair"}}
        good(i) ==
            /\ \A key \in keys(i) : Cardinality(field(i, key)) = 1 /\ value(i, key).some
            /\ <<"k", "e", "y">> \in keys(i)
            /\ Len(value(i, <<"k", "e", "y">>).val) = 1
            /\ <<"e", "x", "e", "c", "u", "t", "a", "b", "l", "e">> \in keys(i)
        command(i) ==
            CustomCommand(value(i, <<"k", "e", "y">>).val[1],
                          value(i, <<"e", "x", "e", "c", "u", "t", "a", "b", "l", "e">>).val,
                          IF <<"a", "r", "g", "s">> \in keys(i)
                          THEN Some(value(i, <<"a", "r", "g", "s">>).val)
                          ELSE None)
        nth(k) == CHOOSE i \in headers : Cardinality({j \in headers : j < i}) = k - 1
    IN  IF headers = {}
        THEN IF Cardinality(empties) = 1 THEN Ok(Config(<<>>)) ELSE Err
        ELSE IF empties = {} /\ \A i \in headers : good(i)
             THEN Ok(Config([k \in 1..Cardinality(headers) |-> command(nth(k))]))
             ELSE Err

\* the custom commands of the configurations that are written and read back
ConfigKeys == {"i", "\""}
ConfigExecutables == {<<>>, <<"a">>, <<"a", "\"">>, <<"\\", "n">>, <<"LF", "\\">>}
ConfigArgs == {None, Some(<<>>), Some(<<"{", "}">>), Some(<<"\\", "\"">>)}
CustomCommands ==
    {CustomCommand(k, e, a) : k \in ConfigKeys, e \in ConfigExecutables, a \in ConfigArgs}
Configs == {Config(cs) : cs \in UNION {[1..n -> CustomCommands] : n \in 0..MaxCommands}}

\* either a Config to be serialized, or the text of DEFAULT_CONFIG
ConfigInit ==
    /\ NoCls /\ NoScan
    /\ registry = None /\ threadpool = None /\ git_revwalk = None
    /\ report = None /\ table = None /\ list_view = None /\ siv = None
    /\ config \in {[input |-> Some(c), content |-> None, parsed |-> None] : c \in Configs}
                  \cup {[input |-> None, content |-> Some(DEFAULT_CONFIG), parsed |-> None]}
notConfig == <<clsVars, scanVars, registry, threadpool, git_revwalk, report, table, list_view, siv>>

\* serialize(&config)
Serialize ==
    /\ config.input.some /\ ~config.content.some
    /\ config' = [config EXCEPT !.content = Some(serialize(config.input.val))]
    /\ UNCHANGED notConfig

\* deserialize(&content), as the test and Config::read call it
Deserialize ==
    /\ config.content.some /\ ~config.parsed.some
    /\ config' = [config EXCEPT !.parsed = Some(deserialize(config.content.val))]
    /\ UNCHANGED notConfig

ConfigNext == Serialize \/ Deserialize
ConfigSpec == ConfigInit /\ [][ConfigNext]_vars

\* ------------------------------------------------------------ the table view
\* Vec::insert
VecInsert(s, index, v) == SubSeq(s, 1, index) \o <<v>> \o SubSeq(s, index + 1, Len(s))

\* the last call on the table: its name, its arguments and what it returned
Call(op, call_args, returned) == [op |-> op, args |-> call_args, returned |-> returned]

\* TableView::new; rows_to_items holds storage indices counted from 0
TableViewNew ==
    [enabled |-> TRUE, needs_relayout |-> TRUE,
     column_select |-> FALSE, columns |-> <<>>, column_indicies |-> <<>>,
     focus |-> 0, items |-> <<>>, rows_to_items |-> <<>>,
     on_submit |-> FALSE, on_select |-> FALSE,
     call |-> Call("new", <<>>, None)]

\* TableColumn::new, with the width that .width(n) asks for and layout_content
\* gives it
TableColumn(column, width) == [column |-> column, selected |-> FALSE, width |-> width]

\* a variant that leaves the indices of the columns to the right as they are
insert_column_no_shift(t, i, column, width) ==
    [t EXCEPT !.column_indicies =
                  [k \in DOMAIN t.column_indicies \cup {column} |->
                      IF k = column THEN i ELSE t.column_indicies[k]],
              !.columns = VecInsert(@, i, TableColumn(column, width)),
              !.needs_relayout = TRUE]

\* TableView::insert_column: column_indicies is the HashMap from the column
\* key to its position, columns the Vec of the columns
insert_column(t, i, column, width) ==
    LET right(k) == Cardinality({j \in (i + 1)..Len(t.columns) : t.columns[j].column = k})
    IN  [t EXCEPT !.column_indicies =
                      [k \in DOMAIN t.column_indicies \cup {column} |->
                          IF k = column THEN i ELSE t.column_indicies[k] + right(k)],
                  !.columns = VecInsert(@, i, TableColumn(column, width)),
                  !.needs_relayout = TRUE]

\* TableView::add_column (and the chainable TableView::column)
add_column(t, column, width) == insert_column(t, Len(t.columns), column, width)

\* TableView::remove_column
remove_column(t, i) ==
    LET right(k) == Cardinality({j \in (i + 2)..Len(t.columns) : t.columns[j].column = k})
        removed == t.columns[i + 1].column
    IN  [t EXCEPT !.column_indicies =
                      [k \in DOMAIN t.column_indicies \ {removed} |->
                          t.column_indicies[k] - right(k)],
                  !.columns = SubSeq(@, 1, i) \o SubSeq(@, i + 2, Len(@)),
                  !.needs_relayout = TRUE]

\* TableView::set_selected_item: the focus goes to the first row that shows
\* the item
set_selected_item(t, item_index) ==
    LET rows == {row \in 1..Len(t.rows_to_items) : t.rows_to_items[row] = item_index}
    IN  IF item_index < Len(t.items) /\ rows # {}
        THEN [t EXCEPT !.focus = (CHOOSE row \in rows : \A other \in rows : row <= other) - 1]
        ELSE t

\* TableView::set_items_and_focus
set_items_and_focus(t, items, new_location) ==
    [set_selected_item([t EXCEPT !.items = items,
                                 !.rows_to_items = [i \in 1..Len(items) |-> i - 1]],
                       new_location)
        EXCEPT !.needs_relayout = TRUE]

\* TableView::set_items
set_items(t, items) == set_items_and_focus(t, items, 0)

\* TableView::insert_item_at
insert_item_at(t, index, item) ==
    [t EXCEPT !.items = Append(@, item),
              !.rows_to_items = VecInsert(@, index, Len(t.items)),
              !.needs_relayout = TRUE]

\* a variant that shows the new item in the first row
insert_item_first_row(t, item) == insert_item_at(t, 0, item)

\* TableView::insert_item
insert_item(t, item) == insert_item_at(t, Len(t.items), item)

\* TableView::item: the storage index of the focused row
item(t) ==
    IF t.focus < Len(t.rows_to_items) THEN Some(t.rows_to_items[t.focus + 1]) ELSE None

\* TableView::focus_up
focus_up(t, n) == [t EXCEPT !.focus = @ - min(@, n)]

\* Vec::retain
RECURSIVE retain_not(_, _)
retain_not(s, v) ==
    IF s = <<>> THEN <<>>
    ELSE (IF Head(s) = v THEN <<>> ELSE <<Head(s)>>) \o retain_not(Tail(s), v)

\* a variant that leaves the references to the later items as they are
remove_item_keeps_references(t, item_index) ==
    IF item_index < Len(t.items)
    THEN LET moved == IF item(t) = Some(item_index) THEN focus_up(t, 1) ELSE t
         IN  [table |-> [moved EXCEPT
                            !.rows_to_items = retain_not(moved.rows_to_items, item_index),
                            !.needs_relayout = TRUE,
                            !.items = SubSeq(@, 1, item_index)
                                      \o SubSeq(@, item_index + 2, Len(@))],
              returned |-> Some(t.items[item_index + 1])]
    ELSE [table |-> t, returned |-> None]

\* TableView::remove_item: the table it leaves and the item it returns
remove_item(t, item_index) ==
    IF item_index < Len(t.items)
    THEN LET moved == IF item(t) = Some(item_index) THEN focus_up(t, 1) ELSE t
             kept == retain_not(moved.rows_to_items, item_index)
         IN  [table |-> [moved EXCEPT
                            !.rows_to_items =
                                [row \in 1..Len(kept) |->
                                    IF kept[row] > item_index THEN kept[row] - 1 ELSE kept[row]],
                            !.needs_relayout = TRUE,
                            !.items = SubSeq(@, 1, item_index)
                                      \o SubSeq(@, item_index + 2, Len(@))],
              returned |-> Some(t.items[item_index + 1])]
    ELSE [table |-> t, returned |-> None]

\* TableView::clear
clear(t) == [t EXCEPT !.items = <<>>, !.rows_to_items = <<>>, !.focus = 0,
                      !.needs_relayout = TRUE]

\* TableView::take_items: the table it leaves and the items it returns
take_items(t) ==
    [table |-> [t EXCEPT !.focus = 0, !.rows_to_items = <<>>, !.needs_relayout = TRUE,
                         !.items = <<>>],
     returned |-> t.items]

\* cursive Event, as far as the views tell events apart: a key, a character,
\* or a mouse event with position.checked_sub(offset) as pos
KeyEvent(key) == [type |-> "key", key |-> key, pos |-> None]
CharEvent(c) == [type |-> "char", key |-> c, pos |-> None]
MouseEvent(event, pos) == [type |-> "mouse", key |-> event, pos |-> pos]
XY(x, y) == [x |-> x, y |-> y]

\* EventResult: Ignored, or Consumed with an optional callback; the callback
\* is the one registered and the (row, index) it will be called with
Ignored == [consumed |-> FALSE, callback |-> None, panicked |-> FALSE]
Consumed(callback) == [consumed |-> TRUE, callback |-> callback, panicked |-> FALSE]
Callback(cb, row, index) == [cb |-> cb, row |-> row, index |-> index]
\* the handler panicked: Option::unwrap on None
Panicked == [consumed |-> FALSE, callback |-> None, panicked |-> TRUE]

\* TableView::set_on_select (set_on_submit and set_enabled are called nowhere
\* in this repository: on_submit stays None and the table enabled)
set_on_select(t) == [t EXCEPT !.on_select = TRUE]

\* TableView::row
row(t) == IF t.items = <<>> THEN None ELSE Some(t.focus)

\* TableView::focus_down
focus_down(t, n) ==
    [t EXCEPT !.focus = min(@ + n, IF Len(t.items) = 0 THEN 0 ELSE Len(t.items) - 1)]

\* TableView::column_cancel
column_cancel(t) == [t EXCEPT !.column_select = FALSE]

\* TableView::active_column
active_column(t) ==
    LET selected == {i \in 1..Len(t.columns) : t.columns[i].selected}
    IN  IF selected = {} THEN 0 ELSE (CHOOSE i \in selected : \A j \in selected : i <= j) - 1

\* TableView::column_for_x: the column under x, None between and past the
\* columns
RECURSIVE column_for_x_from(_, _, _)
column_for_x_from(t, i, x) ==
    IF i >= Len(t.columns) THEN None
    ELSE IF x < t.columns[i + 1].width THEN Some(i)
    ELSE IF x - t.columns[i + 1].width < 3 THEN None
    ELSE column_for_x_from(t, i + 1, x - t.columns[i + 1].width - 3)
column_for_x(t, x) == column_for_x_from(t, 0, x)

\* TableView::on_focus_change: row().unwrap() and item().unwrap()
on_focus_change(t) ==
    IF ~row(t).some \/ ~item(t).some THEN Panicked
    ELSE Consumed(IF t.on_select
                  THEN Some(Callback("on_select", row(t).val, item(t).val))
                  ELSE None)

\* TableView::on_submit_event
on_submit_event(t) ==
    IF ~t.on_submit THEN Ignored
    ELSE IF ~row(t).some \/ ~item(t).some THEN Panicked
    ELSE Consumed(Some(Callback("on_submit", row(t).val, item(t).val)))

\* TableView::on_inner_event: the table it leaves and the EventResult; a
\* result of "after" stands for the code after the match
on_inner_event(t, event) ==
    LET is_key(k) == event.type = "key" /\ event.key = k
        press == event.type = "mouse" /\ event.key \in {"PressLeft", "PressRight"}
        after(t1) == [table |-> t1,
                      result |-> IF t1.column_select THEN Consumed(None)
                                 ELSE IF t1.items # <<>> /\ t.focus # t1.focus
                                 THEN on_focus_change(t1)
                                 ELSE Ignored]
        return(t1, result) == [table |-> t1, result |-> result]
    IN  CASE is_key("Right") \/ is_key("Left") -> return(t, Ignored)
          [] is_key("Up") /\ (t.focus > 0 \/ t.column_select) ->
                after(IF t.column_select THEN column_cancel(t) ELSE focus_up(t, 1))
          [] is_key("Down") /\ (t.focus + 1 < Len(t.items) \/ t.column_select) ->
                after(IF t.column_select THEN column_cancel(t) ELSE focus_down(t, 1))
          [] is_key("PageUp") -> after(focus_up(column_cancel(t), 10))
          [] is_key("PageDown") -> after(focus_down(column_cancel(t), 10))
          [] is_key("Home") -> after([column_cancel(t) EXCEPT !.focus = 0])
          [] is_key("End") ->
                after([column_cancel(t) EXCEPT
                          !.focus = IF Len(t.items) = 0 THEN 0 ELSE Len(t.items) - 1])
          [] is_key("Enter") ->
                IF t.column_select THEN return(t, Ignored)
                ELSE IF t.items # <<>> /\ t.on_submit THEN return(t, on_submit_event(t))
                ELSE after(t)
          [] event.type = "mouse" /\ event.key = "PressLeft" /\ t.items # <<>>
             /\ event.pos.some /\ event.pos.val.y = t.focus ->
                return(column_cancel(t), on_submit_event(column_cancel(t)))
          [] press /\ t.items # <<>>
             /\ ~(event.key = "PressLeft" /\ event.pos.some /\ event.pos.val.y = t.focus) ->
                IF event.pos.some /\ event.pos.val.y < Len(t.rows_to_items)
                THEN after([column_cancel(t) EXCEPT !.focus = event.pos.val.y])
                ELSE return(t, Ignored)
          [] OTHER -> return(t, Ignored)

\* Event::relativized((0, 2)): the two header lines are taken off the position
relativized(event) ==
    IF event.pos.some /\ event.pos.val.y >= 2
    THEN [event EXCEPT !.pos = Some(XY(event.pos.val.x, event.pos.val.y - 2))]
    ELSE [event EXCEPT !.pos = None]

\* TableView::on_event: a click on the header line selects a column, every
\* other event goes through scroll::on_event to on_inner_event (an event that
\* on_inner_event ignores may scroll the viewport; that is not followed here)
on_event(t, event) ==
    IF ~t.enabled THEN [table |-> t, result |-> Ignored]
    ELSE IF event.type = "mouse" /\ event.key = "PressLeft"
            /\ event.pos.some /\ event.pos.val.y = 0
    THEN LET col == column_for_x(t, event.pos.val.x)
         IN  IF ~col.some \/ (t.column_select /\ t.columns[col.val + 1].selected)
             THEN [table |-> t, result |-> Ignored]
             ELSE LET unselected == [t.columns EXCEPT ![active_column(t) + 1].selected = FALSE]
                  IN  [table |->
                           [t EXCEPT !.columns = [unselected EXCEPT ![col.val + 1].selected = TRUE],
                                     !.column_select = TRUE],
                       result |-> Ignored]
    ELSE on_inner_event(t, relativized(event))

\* the items of the tables
TableItems == {"a", "b"}
TableItemLists == UNION {[1..n -> TableItems] : n \in 0..MaxItems}

\* the events sent to the table: keys, a character, and mouse events on the
\* header line, the line below it, the rows and past them
TableEvents ==
    {KeyEvent(k) : k \in {"Up", "Down", "PageUp", "PageDown", "Home", "End", "Enter",
                          "Left", "Right"}}
    \cup {CharEvent("q")}
    \cup {MouseEvent(e, pos) :
              e \in {"PressLeft", "PressRight"},
              pos \in {None} \cup {Some(XY(0, y)) : y \in 0..(MaxItems + 2)}}
    \cup {MouseEvent("PressLeft", Some(XY(COLUMN_WIDTH_COMMIT_DATE, 0))),
          MouseEvent("WheelDown", Some(XY(0, 2)))}

\* MainView::new_table: the four columns of the commit table
new_table_columns ==
    add_column(add_column(add_column(add_column(TableViewNew,
        "CommitDateTime", COLUMN_WIDTH_COMMIT_DATE),
        "Repo", COLUMN_WIDTH_REPO_NAME),
        "Comitter", COLUMN_WIDTH_COMITTER),
        "Summary", COLUMN_WIDTH_SUBJECT)

TableInit ==
    /\ NoCls /\ NoScan
    /\ registry = None /\ threadpool = None /\ git_revwalk = None
    /\ report = None /\ config = None
    /\ list_view = None /\ siv = None
    /\ table = new_table_columns
notTable == <<clsVars, scanVars, registry, threadpool, git_revwalk, report, config,
              list_view, siv>>

\* no handler of the table has panicked
TableRuns == ~(table.call.op = "on_event" /\ table.call.returned.val.panicked)

SetItems ==
    \E items \in TableItemLists :
        /\ TableRuns
        /\ table' = [set_items(table, items) EXCEPT !.call = Call("set_items", <<>>, None)]
        /\ UNCHANGED notTable

InsertItem ==
    \E new \in TableItems :
        /\ TableRuns
        /\ Len(table.items) < MaxItems
        /\ table' = [insert_item(table, new) EXCEPT !.call = Call("insert_item", <<new>>, None)]
        /\ UNCHANGED notTable

\* Vec::insert panics when the index is past the end
InsertItemAt ==
    \E index \in 0..Len(table.rows_to_items), new \in TableItems :
        /\ TableRuns
        /\ Len(table.items) < MaxItems
        /\ table' = [insert_item_at(table, index, new)
                        EXCEPT !.call = Call("insert_item_at", <<index, new>>, None)]
        /\ UNCHANGED notTable

RemoveItem ==
    \E item_index \in 0..MaxItems :
        LET r == remove_item(table, item_index)
        IN  /\ TableRuns
            /\ table' = [r.table EXCEPT
                            !.call = Call("remove_item", <<item_index>>, r.returned)]
            /\ UNCHANGED notTable

Clear ==
    /\ TableRuns
    /\ table' = [clear(table) EXCEPT !.call = Call("clear", <<>>, None)]
    /\ UNCHANGED notTable

TakeItems ==
    LET r == take_items(table)
    IN  /\ TableRuns
        /\ table' = [r.table EXCEPT !.call = Call("take_items", <<>>, Some(r.returned))]
        /\ UNCHANGED notTable

SetOnSelect ==
    /\ TableRuns
    /\ ~table.on_select
    /\ table' = [set_on_select(table) EXCEPT !.call = Call("set_on_select", <<>>, None)]
    /\ UNCHANGED notTable

\* View::on_event of the table, called by cursive for a key or mouse event
OnEvent ==
    \E event \in TableEvents :
        LET r == on_event(table, event)
        IN  /\ TableRuns
            /\ table' = [r.table EXCEPT !.call = Call("on_event", <<>>, Some(r.result))]
            /\ UNCHANGED notTable

TableNext ==
    \/ SetItems \/ InsertItem \/ InsertItemAt \/ RemoveItem \/ Clear \/ TakeItems
    \/ SetOnSelect \/ OnEvent
TableSpec == TableInit /\ [][TableNext]_vars

\* -------------------------------------------- the columns of the table view
\* the column keys: enum Column of main_view.rs
ColumnKeys == {"CommitDateTime", "Comitter", "Repo", "Summary"}

ColumnsInit ==
    /\ NoCls /\ NoScan
    /\ registry = None /\ threadpool = None /\ git_revwalk = None
    /\ report = None /\ config = None
    /\ list_view = None /\ siv = None
    /\ table = TableViewNew

\* the slice &self.columns[i..] panics when i is past the end; the key is not
\* one of a column in the table
InsertColumn ==
    \E i \in 0..Len(table.columns), column \in ColumnKeys :
        /\ Len(table.columns) < MaxColumns
        /\ \A j \in 1..Len(table.columns) : table.columns[j].column # column
        /\ table' = [insert_column(table, i, column, 0)
                        EXCEPT !.call = Call("insert_column", <<i, column>>, None)]
        /\ UNCHANGED notTable

AddColumn ==
    \E column \in ColumnKeys :
        /\ Len(table.columns) < MaxColumns
        /\ \A j \in 1..Len(table.columns) : table.columns[j].column # column
        /\ table' = [add_column(table, column, 0)
                        EXCEPT !.call = Call("add_column", <<column>>, None)]
        /\ UNCHANGED notTable

\* the slice &self.columns[i + 1..] panics unless i is a column
RemoveColumn ==
    \E i \in 0..(Len(table.columns) - 1) :
        /\ table' = [remove_column(table, i)
                        EXCEPT !.call = Call("remove_column", <<i>>, None)]
        /\ UNCHANGED notTable

ColumnsNext == InsertColumn \/ AddColumn \/ RemoveColumn
ColumnsSpec == ColumnsInit /\ [][ColumnsNext]_vars

\* ------------------------------------------------ the list view (diff pane)
\* ListView::new. overflow_checks is the build: with overflow checks (the
\* debug profile) an underflowing usize subtraction panics, without them (the
\* release profile) it wraps
ListViewNew(overflow_checks) ==
    [enabled |-> TRUE, needs_relayout |-> TRUE, focus |-> 0,
     items |-> <<>>, rows_to_items |-> <<>>,
     on_submit |-> FALSE, on_select |-> FALSE,
     overflow_checks |-> overflow_checks,
     panicked |-> FALSE,
     call |-> Call("new", <<>>, None)]

\* ListView::insert_item
list_insert_item(l, line) ==
    [l EXCEPT !.items = Append(@, line),
              !.rows_to_items = Append(@, Len(l.items)),
              !.needs_relayout = TRUE]

\* ListView::insert_colorful_string and insert_string: one item for every
\* line of s.split('\n'), which has at least one line
RECURSIVE list_insert_string(_, _)
list_insert_string(l, lines) ==
    IF lines = <<>> THEN l
    ELSE list_insert_string(list_insert_item(l, Head(lines)), Tail(lines))

\* ListView::item: the index panics when the focus is past the last row
list_item(l) ==
    IF l.items = <<>> THEN Some(None)
    ELSE IF l.focus < Len(l.rows_to_items) THEN Some(Some(l.rows_to_items[l.focus + 1]))
    ELSE None

\* ListView::focus_down: self.items.len() - 1 underflows on the empty list;
\* it panics with overflow checks and is usize::MAX without, and then the
\* minimum is focus + n
list_focus_down(l, n) ==
    IF Len(l.items) = 0
    THEN IF l.overflow_checks THEN [l EXCEPT !.panicked = TRUE]
         ELSE [l EXCEPT !.focus = @ + n]
    ELSE [l EXCEPT !.focus = min(@ + n, Len(l.items) - 1)]

\* ListView::on_focus_change
list_on_focus_change(l) ==
    IF ~row(l).some \/ ~list_item(l).some \/ ~list_item(l).val.some THEN Panicked
    ELSE Consumed(IF l.on_select
                  THEN Some(Callback("on_select", row(l).val, list_item(l).val.val))
                  ELSE None)

\* ListView::on_submit_event
list_on_submit_event(l) ==
    IF ~l.on_submit THEN Ignored
    ELSE IF ~row(l).some \/ ~list_item(l).some \/ ~list_item(l).val.some THEN Panicked
    ELSE Consumed(Some(Callback("on_submit", row(l).val, list_item(l).val.val)))

\* ListView::on_inner_event: the list it leaves and the EventResult
list_on_inner_event(l, event) ==
    LET is_key(k) == event.type = "key" /\ event.key = k
        press == event.type = "mouse" /\ event.key \in {"PressLeft", "PressRight"}
        after(l1) == [list |-> l1,
                      result |-> IF l1.panicked THEN Panicked
                                 ELSE IF l1.items # <<>> /\ l.focus # l1.focus
                                 THEN list_on_focus_change(l1)
                                 ELSE Ignored]
        return(l1, result) == [list |-> l1, result |-> result]
    IN  CASE is_key("Right") \/ is_key("Left") -> return(l, Ignored)
          [] is_key("Up") /\ l.focus > 0 -> after(focus_up(l, 1))
          [] is_key("Down") /\ l.focus + 1 < Len(l.items) -> after(list_focus_down(l, 1))
          [] is_key("PageUp") -> after(focus_up(l, 10))
          [] is_key("PageDown") -> after(list_focus_down(l, 10))
          [] is_key("Home") -> after([l EXCEPT !.focus = 0])
          [] is_key("End") ->
                after([l EXCEPT !.focus = IF Len(l.items) = 0 THEN 0 ELSE Len(l.items) - 1])
          [] is_key("Enter") ->
                IF l.items # <<>> /\ l.on_submit THEN return(l, list_on_submit_event(l))
                ELSE after(l)
          [] event.type = "mouse" /\ event.key = "PressLeft" /\ l.items # <<>>
             /\ event.pos.some /\ event.pos.val.y = l.focus ->
                return(l, list_on_submit_event(l))
          [] press /\ l.items # <<>>
             /\ ~(event.key = "PressLeft" /\ event.pos.some /\ event.pos.val.y = l.focus) ->
                IF event.pos.some /\ event.pos.val.y < Len(l.rows_to_items)
                THEN after([l EXCEPT !.focus = event.pos.val.y])
                ELSE return(l, Ignored)
          [] OTHER -> return(l, Ignored)

\* View::on_event of the list: scroll::on_event hands the event to
\* on_inner_event (an ignored event may scroll the viewport; that is not
\* followed here)
list_on_event(l, event) ==
    IF ~l.enabled THEN [list |-> l, result |-> Ignored]
    ELSE list_on_inner_event(l, event)

\* the lines of the diffs
ListLines == {"+a", "-b"}
ListStrings == {<<x>> : x \in ListLines} \cup {<<x, y>> : x, y \in ListLines}

ListEvents ==
    {KeyEvent(k) : k \in {"Up", "Down", "PageUp", "PageDown", "Home", "End", "Enter",
                          "Left", "Right"}}
    \cup {CharEvent("j")}
    \cup {MouseEvent(e, pos) :
              e \in {"PressLeft", "PressRight"},
              pos \in {None} \cup {Some(XY(0, y)) : y \in 0..MaxLines}}

ListInit ==
    /\ NoCls /\ NoScan
    /\ registry = None /\ threadpool = None /\ git_revwalk = None
    /\ report = None /\ config = None
    /\ table = None /\ siv = None
    /\ \E overflow_checks \in BOOLEAN : list_view = ListViewNew(overflow_checks)

notList == <<clsVars, scanVars, registry, threadpool, git_revwalk, report, config,
             table, siv>>

\* a panic ends the program; the focus of the wrapped subtraction is followed
\* up to MaxFocus
ListRuns == ~list_view.panicked /\ list_view.focus <= MaxFocus

\* DiffView::empty and the first line of DiffView::set_commit: a new list
ListNew ==
    /\ ListRuns
    /\ list_view.call.op # "new"
    /\ list_view' = ListViewNew(list_view.overflow_checks)
    /\ UNCHANGED notList

\* DiffView::set_commit: the lines of the commit and of its diff
ListInsertString ==
    \E lines \in ListStrings :
        /\ ListRuns
        /\ Len(list_view.items) + Len(lines) <= MaxLines
        /\ list_view' = [list_insert_string(list_view, lines)
                            EXCEPT !.call = Call("insert_colorful_string", <<>>, None)]
        /\ UNCHANGED notList

\* View::on_event of the list, called by cursive for a key or mouse event
ListOnEvent ==
    \E event \in ListEvents :
        LET r == list_on_event(list_view, event)
        IN  /\ ListRuns
            /\ list_view' = [r.list EXCEPT
                                !.panicked = r.result.panicked,
                                !.call = Call("on_event", <<event>>, Some(r.result))]
            /\ UNCHANGED notList

ListNext == ListNew \/ ListInsertString \/ ListOnEvent
ListSpec == ListInit /\ [][ListNext]_vars

\* ------------------------------------------------------- the user interface
\* str::replace: every non-overlapping match of the pattern, from the left
RECURSIVE str_replace(_, _, _)
str_replace(s, from, to) ==
    IF Len(s) < Len(from) THEN s
    ELSE IF SubSeq(s, 1, Len(from)) = from
    THEN to \o str_replace(SubSeq(s, Len(from) + 1, Len(s)), from, to)
    ELSE <<s[1]>> \o str_replace(Tail(s), from, to)

\* str::split(' '): the pieces between the separators, empty ones included
RECURSIVE str_split(_, _)
str_split(s, sep) ==
    LET at == {i \in 1..Len(s) : s[i] = sep}
    IN  IF at = {} THEN <<s>>
        ELSE LET i == CHOOSE i \in at : \A j \in at : i <= j
             IN  <<SubSeq(s, 1, i - 1)>> \o str_split(SubSeq(s, i + 1, Len(s)), sep)

\* utils::execute_on_commit: the Command that is spawned (whether the spawn
\* succeeds is not followed)
execute_on_commit(exec, cmd_args, commit) ==
    LET commit_id == commit.commit_id
        args_with_commit == str_replace(cmd_args, <<"{", "}">>, commit_id)
    IN  [exec |-> exec,
         current_dir |-> commit.repo.abs_path,
         args |-> str_split(args_with_commit, " ")]

\* TableView::set_selected_row
set_selected_row(t, row_index) == [t EXCEPT !.focus = row_index]

\* MainView::new_table
new_table(model_commits) ==
    set_selected_row(set_items(new_table_columns, model_commits), 0)

\* a variant that shows the storage index as it is
update_commit_bar_from_zero(index, size, entry) ==
    <<"Commit ">> \o Digits(index) \o <<" of ">> \o Digits(size)
        \o <<" - ">> \o entry.repo.rel_path

\* MainView::update_commit_bar: the text of the commit bar
update_commit_bar(index, size, entry) ==
    <<"Commit ">> \o Digits(index + 1) \o <<" of ">> \o Digits(size)
        \o <<" - ">> \o entry.repo.rel_path

\* DiffView::empty
DiffViewEmpty == [list_view |-> ListViewNew(TRUE), commit |-> None]

\* DiffView::set_commit: the commit, and a new list with the line of the
\* repository, the output of git show, a rule and the output of git diff (git
\* is taken to print one line for show and none for diff)
set_commit(entry) ==
    [commit |-> Some(entry),
     list_view |-> list_insert_string(
                       list_insert_string(
                           list_insert_string(ListViewNew(TRUE), <<"Repo">>),
                           <<"+a">>),
                       <<"---">>)]

\* ui::update
update(s, index, commits_len, entry) ==
    [s EXCEPT !.diff_view = set_commit(entry),
              !.commit_bar = update_commit_bar(index, commits_len, entry)]

\* the callbacks: a custom command of the configuration, a built-in command
CustomCallback(cmd) == [kind |-> "custom", ch |-> cmd.key, cmd |-> Some(cmd)]
BuiltinCallback(ch) == [kind |-> "builtin", ch |-> ch, cmd |-> None]

\* Cursive::clear_global_callbacks and Cursive::add_global_callback
clear_global_callbacks(s, ch) == [s EXCEPT !.global_callbacks[ch] = <<>>]
add_global_callback(s, ch, cb) == [s EXCEPT !.global_callbacks[ch] = Append(@, cb)]

\* a variant that keeps the callbacks the key has
register_builtin_command_keeps(ch, s) == add_global_callback(s, ch, BuiltinCallback(ch))

\* ui::register_builtin_command
register_builtin_command(ch, s) ==
    add_global_callback(clear_global_callbacks(s, ch), ch, BuiltinCallback(ch))

\* ui::register_custom_commands
RECURSIVE register_custom_commands_from(_, _)
register_custom_commands_from(custom_command, s) ==
    IF custom_command = <<>> THEN s
    ELSE register_custom_commands_from(
             Tail(custom_command),
             add_global_callback(s, Head(custom_command).key,
                                 CustomCallback(Head(custom_command))))
register_custom_commands(cfg, s) == register_custom_commands_from(cfg.custom_command, s)

\* what a callback did: the built-in that ran, or the custom command with the
\* Command it spawned (None when the DiffView holds no commit)
Ran(cb, executed) == [kind |-> cb.kind, ch |-> cb.ch, executed |-> executed]

\* the closure of a custom command (ui.rs:138-149)
run_custom(s, cb) ==
    IF s.diff_view.commit.some
    THEN [s EXCEPT !.call.ran = Append(@,
             Ran(cb, Some(execute_on_commit(cb.cmd.val.executable,
                                            unwrap_or(cb.cmd.val.args, <<>>),
                                            s.diff_view.commit.val))))]
    ELSE [s EXCEPT !.call.ran = Append(@, Ran(cb, None))]

\* the closures of the built-in commands (ui.rs:102-115): q pops the layer
\* and quits when none is left, k and j send Up and Down to the DiffView
run_builtin(s, cb) ==
    LET ran == [s EXCEPT !.call.ran = Append(@, Ran(cb, None))]
        key == IF cb.ch = "k" THEN "Up" ELSE "Down"
    IN  IF cb.ch = "q"
        THEN LET layers == IF s.layers > 0 THEN s.layers - 1 ELSE 0
             IN  [ran EXCEPT !.layers = layers,
                             !.running = IF layers = 0 THEN FALSE ELSE @]
        ELSE [ran EXCEPT !.diff_view.list_view =
                             list_on_event(@, KeyEvent(key)).list]

\* the closure handed to MainView::set_on_select (main_view.rs:74-80 and
\* ui.rs:67-74): borrow_item(index).unwrap(), then the update
run_on_select(s, cb) ==
    IF cb.index >= Len(s.table.items) THEN [s EXCEPT !.panicked = TRUE, !.running = FALSE]
    ELSE update(s, cb.index, s.commits, s.table.items[cb.index + 1])

\* Cursive::on_ignored_event: every callback of the event, in the order of
\* their registration
RECURSIVE run_callbacks(_, _)
run_callbacks(s, cbs) ==
    IF cbs = <<>> THEN s
    ELSE run_callbacks(IF Head(cbs).kind = "custom" THEN run_custom(s, Head(cbs))
                       ELSE run_builtin(s, Head(cbs)),
                       Tail(cbs))

\* Cursive::on_event with the event going to the commit table: the callback
\* the view returns is run; an event the view ignores goes to the global
\* callbacks
siv_on_event(s, event) ==
    LET r == on_event(s.table, event)
        s1 == [s EXCEPT !.table = r.table, !.call = [event |-> Some(event), ran |-> <<>>]]
    IN  IF r.result.panicked THEN [s1 EXCEPT !.panicked = TRUE, !.running = FALSE]
        ELSE IF r.result.consumed
        THEN IF r.result.callback.some THEN run_on_select(s1, r.result.callback.val) ELSE s1
        ELSE IF event.type = "char" /\ event.key \in DOMAIN s.global_callbacks
        THEN run_callbacks(s1, s.global_callbacks[event.key])
        ELSE s1

\* the keys of the commands
UiKeys == {"q", "k", "j", "i"}
BuiltinKeys == {"q", "k", "j"}

\* the closure of ui::show that initialises the interface (ui.rs:54-120)
show(model_commits, cfg) ==
    LET commits_len == Len(model_commits)
        first_commit == IF commits_len > 0 THEN Some(model_commits[1]) ELSE None
        main_view == set_on_select(new_table(model_commits))
        layout == [phase |-> "shown", config |-> cfg, model |-> model_commits,
                   commits |-> commits_len,
                   table |-> main_view, commit_bar |-> <<>>,
                   diff_view |-> DiffViewEmpty,
                   global_callbacks |-> [ch \in UiKeys |-> <<>>],
                   layers |-> 1, running |-> TRUE, panicked |-> FALSE,
                   call |-> [event |-> None, ran |-> <<>>]]
        registered ==
            register_builtin_command("j",
                register_builtin_command("k",
                    register_builtin_command("q",
                        register_custom_commands(cfg, layout))))
    IN  IF first_commit.some THEN update(registered, 0, commits_len, first_commit.val)
        ELSE registered

\* the commits of the model: commit i of repository r1 or r2
UiCommit(i) ==
    [repo |-> [rel_path |-> <<"r", Digits(1 + (i % 2))[1]>>,
               abs_path |-> <<"/", "r", Digits(1 + (i % 2))[1]>>],
     commit_id |-> <<"c">> \o Digits(i)]
UiModels == {[i \in 1..n |-> UiCommit(i)] : n \in 0..MaxItems}

\* the custom commands of the configurations
UiCommands ==
    {CustomCommand("q", <<"g">>, None),
     CustomCommand("k", <<"g">>, Some(<<"{", "}">>)),
     CustomCommand("j", <<"g">>, Some(<<"-", "p", " ", "{", "}">>)),
     CustomCommand("i", <<"g">>, Some(<<"{", "}", " ", "{", "}">>))}
UiConfigs == {Config(cs) : cs \in UNION {[1..n -> UiCommands] : n \in 0..MaxCommands}}

\* the events of the interface: the keys, the characters, a click on every
\* row of the table and below it, on its header and outside of it
UiEvents ==
    {KeyEvent(k) : k \in {"Up", "Down", "PageUp", "PageDown", "Home", "End", "Enter",
                          "Left", "Right"}}
    \cup {CharEvent(c) : c \in UiKeys}
    \cup {MouseEvent("PressLeft", pos) :
              pos \in {None} \cup {Some(XY(0, y)) : y \in 0..(MaxItems + 2)}}
    \cup {MouseEvent("PressRight", Some(XY(0, 2)))}

UiInit ==
    /\ NoCls /\ NoScan
    /\ registry = None /\ threadpool = None /\ git_revwalk = None
    /\ report = None /\ config = None
    /\ table = None /\ list_view = None
    /\ siv \in {[phase |-> "start", config |-> c, model |-> m] :
                   c \in UiConfigs, m \in UiModels}

notSiv == <<clsVars, scanVars, registry, threadpool, git_revwalk, report, config,
            table, list_view>>

\* ui::show up to the event loop
Show ==
    /\ siv.phase = "start"
    /\ siv' = show(siv.model, siv.config)
    /\ UNCHANGED notSiv

\* one event of the event loop of siv.run()
SivOnEvent ==
    \E event \in UiEvents :
        /\ siv.phase = "shown"
        /\ siv.running
        /\ siv' = siv_on_event(siv, event)
        /\ UNCHANGED notSiv

\* a key Up or Down that goes to the DiffView when it has the focus
DiffViewOnEvent ==
    \E key \in {"Up", "Down"} :
        /\ siv.phase = "shown"
        /\ siv.running
        /\ siv' = [siv EXCEPT !.diff_view.list_view = list_on_event(@, KeyEvent(key)).list,
                              !.call = [event |-> Some(KeyEvent(key)), ran |-> <<>>]]
        /\ UNCHANGED notSiv

UiNext == Show \/ SivOnEvent \/ DiffViewOnEvent
UiSpec == UiInit /\ [][UiNext]_vars

\* ================================================================ claims
\* the snapshot, once MultiRepoHistory::from has returned
Snapshot == history.val

\* a >= b on commit times: the later instant, and among equal instants the
\* larger offset
TimeGe(a, b) ==
    \/ a.seconds > b.seconds
    \/ a.seconds = b.seconds /\ a.offset_minutes >= b.offset_minutes

\* the commits of repository r in the snapshot, in snapshot order
SnapshotOf(r) == SelectSeq(Snapshot.commits, LAMBDA c : c.repo = r)

SeqToSet(q) == {q[i] : i \in DOMAIN q}

\* opening repository r, creating its revwalk or seeding it with HEAD fails
SetupFails(r) == ~(disk[r].open /\ disk[r].revwalk /\ disk[r].push_head)

\* the commit at position i of r's walk passes the age test
AgeOkAt(r, i) == age_include(classifier.val, disk[r].walk[i].val, now)

\* the first position of r's walk at which the walk stops: an id that cannot
\* be resolved or a commit that fails the age test (Len + 1: none)
FirstStop(r) ==
    LET walk == disk[r].walk
        stops == {i \in DOMAIN walk : ~walk[i].some \/ ~AgeOkAt(r, i)}
    IN  IF stops = {} THEN Len(walk) + 1
        ELSE CHOOSE i \in stops : \A j \in stops : i <= j

\* what repository r contributes, from r's own contents alone: nothing when
\* its setup fails or its walk meets an unresolvable id, else the commits
\* before the first stop that the classifier includes
Contribution(r) ==
    LET walk == disk[r].walk
        stop == FirstStop(r)
    IN  IF SetupFails(r) \/ (stop <= Len(walk) /\ ~walk[stop].some) THEN {}
        ELSE {RepoCommitFrom(r, walk[i].val) :
                i \in {j \in 1..(stop - 1) :
                         classify(classifier.val, walk[j].val, now).include}}

\* C1: in every snapshot returned by MultiRepoHistory::from, whatever the
\* interleaving of the workers, each adjacent pair of commits is in
\* descending order of commit time.
C1_SnapshotSortedDescending ==
    history.some =>
        \A i \in 1..(Len(Snapshot.commits) - 1) :
            TimeGe(Snapshot.commits[i].timestamp, Snapshot.commits[i + 1].timestamp)

\* C1 witness: a snapshot of three or more commits, from both repositories,
\* whose sorted order differs from the order in which they were collected.
C1_Witness ==
    /\ history.some
    /\ Len(Snapshot.commits) >= 3
    /\ Snapshot.commits # flatten_collect(results, NumRepos)
    /\ \E i, j \in DOMAIN Snapshot.commits : Snapshot.commits[i].repo # Snapshot.commits[j].repo

\* C2: a repository whose open, revwalk creation or HEAD seeding fails
\* contributes no commit to the snapshot and has a line naming its path
\* printed; the scan goes on (the worker is released, and once every
\* closure has returned from can return) and returns a snapshot in which
\* every other repository has exactly the commits its own walk yields.
C2_SetupFailureIsolated ==
    \A r \in DOMAIN disk :
        SetupFails(r) =>
            /\ results[r].returned =>
                /\ ~results[r].out.some
                /\ \E line \in printed : line.rel_path = repos[r].rel_path
                /\ \A w \in Workers : worker[w].repo # r
                /\ (~history.some /\ \A r2 \in Repos : results[r2].returned)
                    => ENABLED FromReturns
            /\ history.some =>
                /\ results[r].returned
                /\ SnapshotOf(r) = <<>>
                /\ \A r2 \in Repos \ {r} :
                    /\ SeqToSet(SnapshotOf(r2)) = Contribution(r2)
                    /\ Len(SnapshotOf(r2)) = Cardinality(Contribution(r2))

\* C2 witness: repository 1 cannot be opened, repository 2 has matching
\* commits, and the snapshot holds them.
C2_Witness ==
    /\ history.some
    /\ ~disk[1].open
    /\ Contribution(2) # {}
    /\ SeqToSet(Snapshot.commits) = Contribution(2)

\* the number of ids, over all walks, that were visited and not resolved
RECURSIVE UnresolvedVisited(_)
UnresolvedVisited(n) ==
    IF n = 0 THEN 0 ELSE UnresolvedVisited(n - 1) + Cardinality(unresolved[n])

\* C3: the snapshot carries a missing_commit_count equal to the number of
\* commit ids, summed over all walks, that were visited but could not be
\* resolved (stated for the scans that visited at least one such id).
C3_MissingCommitCountExact ==
    (history.some /\ UnresolvedVisited(NumRepos) > 0) =>
        /\ "missing_commit_count" \in DOMAIN Snapshot
        /\ Snapshot.missing_commit_count = UnresolvedVisited(NumRepos)

\* C4: when an id of a repository's walk cannot be resolved, only that id is
\* skipped: every commit of the same walk that the classifier includes and
\* that no earlier age failure cuts off, before or after the unresolvable
\* id, is in the snapshot.
C4_UnresolvableIdOnlySkipped ==
    history.some =>
        \A r \in Repos : \A p \in unresolved[r] :
            \A i \in DOMAIN disk[r].walk :
                (/\ disk[r].walk[i].some
                 /\ \A j \in 1..i : disk[r].walk[j].some => AgeOkAt(r, j)
                 /\ classify(classifier.val, disk[r].walk[i].val, now).include)
                => RepoCommitFrom(r, disk[r].walk[i].val) \in SeqToSet(SnapshotOf(r))

\* the commits of r's walk before position p that the classifier includes,
\* in walk order
RECURSIVE IncludedBefore(_, _)
IncludedBefore(r, p) ==
    IF p <= 1 THEN <<>>
    ELSE LET c == disk[r].walk[p - 1]
         IN  IF c.some /\ classify(classifier.val, c.val, now).include
             THEN Append(IncludedBefore(r, p - 1), RepoCommitFrom(r, c.val))
             ELSE IncludedBefore(r, p - 1)

\* C8: in a repository's walk, a classified commit that fails the age test
\* ends the walk at once: the closure has returned the commits included
\* before it, the commit itself is not among them, no later position was
\* classified or looked up, and the snapshot holds exactly those commits
\* for the repository.
C8_AgeFailureEndsWalk ==
    \A r \in DOMAIN disk : \A p \in classified[r] :
        ~AgeOkAt(r, p) =>
            /\ results[r].returned
            /\ results[r].out = Some(IncludedBefore(r, p))
            /\ RepoCommitFrom(r, disk[r].walk[p].val) \notin SeqToSet(results[r].out.val)
            /\ \A q \in classified[r] \cup unresolved[r] : q <= p
            /\ history.some => SnapshotOf(r) = IncludedBefore(r, p)

\* C8 witness (Scenario A): repository 1 has commits aged 0, 5 and 40 days,
\* repository 2 commits aged 1 and 2 days, max age 10 days and no other
\* filter; the snapshot is the commits aged 0, 1, 2 and 5 days, the one aged
\* 40 days was classified and ended the walk of repository 1.
C8_Witness ==
    /\ history.some
    /\ ~args.author.some
    /\ disk[1].walk = <<Some(C0), Some(C5), Some(C40)>>
    /\ disk[2].walk = <<Some(C1), Some(C2)>>
    /\ classified[1] = {1, 2, 3}
    /\ Snapshot.commits = <<RepoCommitFrom(1, C0), RepoCommitFrom(2, C1),
                            RepoCommitFrom(2, C2), RepoCommitFrom(1, C5)>>

\* ------------------------------------------------ claims on the classifier
\* the whole-day age of the classified commit: now minus its commit time,
\* in whole days, rounded toward zero
AgeDays == num_days(signed_duration_since(now, subject.val.time.seconds))

\* age <= --days, with --days read as the number it was given as
WithinDays(age, days) == days = U32Max \/ age <= days[1] * W16 + days[2]

\* case folding as the specification words it
Fold(str) == to_lowercase(str)

\* the message filter is off, or the commit passes it
MessagePasses ==
    classifier.val.message.some =>
        message_include(classifier.val.message.val, subject.val)

\* C5: with no author and no message filter, classify includes a commit if
\* and only if its whole-day age A satisfies A <= max_age_days.
C5_IncludedIffWithinMaxAge ==
    (verdict.some /\ ~args.author.some /\ ~args.message.some) =>
        (verdict.val.include <=> WithinDays(AgeDays, args.days))

\* C6: the abort flag of classify is true exactly when the age comparison of
\* classify fails, and it is the same for every author and message filter
\* that could have been configured instead.
C6_AbortIffAgeTestFails ==
    verdict.some =>
        /\ verdict.val.abort <=> ~age_include(classifier.val, subject.val, now)
        /\ \A a \in ClsAuthorPatterns, m \in ClsMessagePatterns :
            classify(ClassifierNew(args.days, a, m), subject.val, now).abort
                = verdict.val.abort

\* C6 witness: a commit that passes the age test and is excluded by the
\* author filter does not abort the walk.
C6_Witness ==
    /\ verdict.some
    /\ args.author.some
    /\ age_include(classifier.val, subject.val, now)
    /\ ~verdict.val.include
    /\ ~verdict.val.abort

\* C7: the include flag of classify is the conjunction of the age test, the
\* author test and the message test of classify, a filter that is not
\* configured counting as passed.
C7_IncludeIsConjunction ==
    verdict.some =>
        (verdict.val.include <=>
            /\ age_include(classifier.val, subject.val, now)
            /\ args.author.some => author_include(classifier.val.author.val, subject.val)
            /\ args.message.some => message_include(classifier.val.message.val, subject.val))

\* C7 witness: both filters are configured, the commit passes the age and
\* the author test and fails the message test, and is not included.
C7_Witness ==
    /\ verdict.some
    /\ args.author.some /\ args.message.some
    /\ age_include(classifier.val, subject.val, now)
    /\ author_include(classifier.val.author.val, subject.val)
    /\ ~message_include(classifier.val.message.val, subject.val)
    /\ ~verdict.val.include

C10_AuthorMatchIgnoresCase ==
    (/\ verdict.some /\ args.author.some
     /\ age_include(classifier.val, subject.val, now)
     /\ MessagePasses
     /\ contains(Fold(unwrap_or(subject.val.author_name, <<>>)), Fold(args.author.val)))
    => verdict.val.include

\* the author filter is off, or the commit passes it
AuthorPasses ==
    classifier.val.author.some =>
        author_include(classifier.val.author.val, subject.val)

\* C11: with a message filter configured, a commit (inside the age window and
\* passing the author filter) passes the message test if and only if its
\* case-folded full message contains the case-folded pattern, whatever the
\* letter case of the two; a commit without a readable message counts as one
\* with the empty message.
C11_MessageMatchIgnoresCase ==
    (/\ verdict.some /\ args.message.some
     /\ age_include(classifier.val, subject.val, now)
     /\ AuthorPasses)
    => (verdict.val.include <=>
            contains(Fold(unwrap_or(subject.val.message, <<>>)), Fold(args.message.val)))

\* how often x occurs in the sequence q
Count(q, x) == Cardinality({i \in DOMAIN q : q[i] = x})

\* the list the closure returned for repository r, empty when it returned None
\* or has not returned
ResultList(r) == IF results[r].out.some THEN results[r].out.val ELSE <<>>

RECURSIVE ResultTotal(_)
ResultTotal(n) == IF n = 0 THEN 0 ELSE ResultTotal(n - 1) + Len(ResultList(n))

\* C12: whatever the interleaving of the workers, the commits of the snapshot
\* are, as a multiset, the lists the closures returned for the repositories
\* whose walk completed: each commit of such a list is in the snapshot as often
\* as in the list, under the repository that produced it, and the snapshot
\* holds nothing else.
C12_SnapshotIsUnionOfResults ==
    history.some =>
        /\ Len(Snapshot.commits) = ResultTotal(NumRepos)
        /\ \A r \in Repos :
            /\ \A i \in DOMAIN ResultList(r) :
                /\ ResultList(r)[i].repo = r
                /\ Count(Snapshot.commits, ResultList(r)[i])
                       = Count(ResultList(r), ResultList(r)[i])
            /\ \A i \in DOMAIN SnapshotOf(r) :
                Count(ResultList(r), SnapshotOf(r)[i]) > 0

\* C12 witness: two workers each completed one walk, both lists are non-empty
\* and the snapshot is returned
C12_Witness ==
    /\ history.some
    /\ \A w \in Workers : bars[w].position >= 1
    /\ \A r \in 1..2 : results[r].out.some /\ Len(results[r].out.val) >= 1

RECURSIVE ContributionTotal(_)
ContributionTotal(n) ==
    IF n = 0 THEN 0 ELSE ContributionTotal(n - 1) + Cardinality(Contribution(n))

\* C13: the snapshot is a function of the repository contents, the classifier
\* configuration and now, up to the order among equal timestamps; so two scans
\* that differ only in the interleaving and the completion order of the
\* workers return the same commits, in the same order except among commits of
\* equal timestamp. The commits are the ones the walks yield from disk,
\* classifier and now alone, and two commits of different timestamps stand
\* newest first.
C13_SnapshotIndependentOfInterleaving ==
    history.some =>
        /\ SeqToSet(Snapshot.commits) = UNION {Contribution(r) : r \in Repos}
        /\ Len(Snapshot.commits) = ContributionTotal(NumRepos)
        /\ \A i, j \in DOMAIN Snapshot.commits :
            (i < j /\ Snapshot.commits[i].timestamp # Snapshot.commits[j].timestamp)
                => time_cmp(Snapshot.commits[i].timestamp,
                            Snapshot.commits[j].timestamp) = "Greater"

\* C13 witness: the two workers each completed a walk, the snapshot holds
\* commits of both repositories with different timestamps and two commits of
\* equal timestamp
C13_Witness ==
    /\ history.some
    /\ \A w \in Workers : bars[w].position >= 1
    /\ \E i, j \in DOMAIN Snapshot.commits :
        /\ Snapshot.commits[i].repo = 1 /\ Snapshot.commits[j].repo = 2
        /\ Snapshot.commits[i].timestamp # Snapshot.commits[j].timestamp
    /\ \E i, j \in DOMAIN Snapshot.commits :
        i # j /\ Snapshot.commits[i].timestamp = Snapshot.commits[j].timestamp

\* C14: the repos of the returned snapshot are the input sequence, the same
\* elements in the same order, whichever scan finished first and whether a
\* repository succeeded or failed; the input sequence itself never changes.
C14_SnapshotReposAreInput ==
    /\ repos = repos_from(NumRepos)
    /\ history.some => Snapshot.repos = repos_from(NumRepos)

\* C14 witness: the first repository failed, a later one contributed commits,
\* and the snapshot is returned
C14_Witness ==
    /\ history.some
    /\ SetupFails(1)
    /\ \E i \in DOMAIN Snapshot.commits : Snapshot.commits[i].repo > 1

\* the ids the walk of repository r resolved and classified
ClassifiedIds(r) == {disk[r].walk[i].val.id : i \in classified[r]}

\* C15: every commit of the snapshot refers to an element of the snapshot's
\* repos, and that element is the repository whose walk produced the commit.
C15_CommitRefersToItsRepo ==
    history.some =>
        \A i \in DOMAIN Snapshot.commits :
            LET c == Snapshot.commits[i]
            IN  /\ c.repo \in DOMAIN Snapshot.repos
                /\ Snapshot.repos[c.repo] = repos[c.repo]
                /\ c.commit_id \in ClassifiedIds(c.repo)

\* C15 witness: the snapshot holds a commit of the second repository that the
\* first repository does not have
C15_Witness ==
    /\ history.some
    /\ \E i \in DOMAIN Snapshot.commits :
        /\ Snapshot.commits[i].repo = 2
        /\ \A k \in DOMAIN disk[1].walk :
            disk[1].walk[k].some => disk[1].walk[k].val.id # Snapshot.commits[i].commit_id

RECURSIVE Ticks(_)
Ticks(n) == IF n = 0 THEN 0 ELSE Ticks(n - 1) + bars[n].position

\* C16: progress advances by one for each repository whose scan ends,
\* completed or failed: when the snapshot is returned the number of progress
\* ticks is the number of input repositories.
C16_OneTickPerRepository ==
    history.some => Ticks(NumWorkers) = Len(repos)

\* C17: each worker writes only its own progress slot, and the slot exists:
\* while worker w scans repository r the label of slot w is "Scanning
\* <r.rel_path>", and when w is between repositories the label of slot w is
\* "Idle" (or still the initial empty label), whichever way the scan ended.
C17_SlotLabelFollowsItsWorker ==
    /\ DOMAIN bars = 1..NumWorkers
    /\ \A w \in Workers :
        /\ w \in DOMAIN bars
        /\ worker[w].pc # "idle" =>
               bars[w].message = <<"Scanning", repos[worker[w].repo].rel_path>>
        /\ worker[w].pc = "idle" =>
               /\ bars[w].message \in {<<>>, <<"Idle">>}
               /\ bars[w].position > 0 => bars[w].message = <<"Idle">>

\* C17 witness: one worker is back to Idle after a failed scan while another
\* worker is in the middle of a walk
C17_Witness ==
    \E w1, w2 \in Workers :
        /\ w1 # w2
        /\ worker[w1].pc = "idle" /\ bars[w1].message = <<"Idle">>
        /\ bars[w1].position = 0
        /\ worker[w2].pc = "walk" /\ worker[w2].pos > 1
        /\ bars[w2].message = <<"Scanning", repos[worker[w2].repo].rel_path>>

\* C18: a failure to build the worker pool is returned to the caller as an
\* error value and no snapshot is produced, and nothing else makes the scan
\* end in an error.
C18_PoolFailureIsReturnedError ==
    /\ do_main.pool = "failed" => (do_main.exit = "returned_err" /\ ~history.some)
    /\ do_main.exit # "running" => do_main.pool = "failed"

\* the workers that are scanning repository r
Scanning(r) == {w \in Workers : worker[w].pc # "idle" /\ worker[w].repo = r}

\* C19: every input repository is scanned exactly once and never by two
\* workers at a time: a repository not yet handed out has had no scan, any
\* other has had exactly one, which one worker is running or which has
\* returned; when the snapshot is returned every repository has had its scan.
C19_EachRepositoryScannedOnce ==
    /\ \A r \in Repos :
        /\ scans[r] = IF r \in todo THEN 0 ELSE 1
        /\ Cardinality(Scanning(r)) = IF r \notin todo /\ ~results[r].returned THEN 1 ELSE 0
    /\ \A w \in Workers : worker[w].pc # "idle" => worker[w].repo \in Repos
    /\ history.some => \A r \in Repos : scans[r] = 1 /\ results[r].returned

\* C19 witness: both workers are scanning, each its own repository
C19_Witness ==
    /\ \A w \in Workers : worker[w].pc = "walk"
    /\ worker[1].repo # worker[2].repo

\* C20: the commits are sorted and the snapshot is assembled only after every
\* repository scan has ended, and once: from the moment the snapshot exists
\* every repository has its result, no worker is scanning (so none appends a
\* commit any more), the snapshot holds as many commits as the results do, and
\* from has returned exactly once.
C20_SnapshotBuiltOnceAfterJoin ==
    /\ returns = IF history.some THEN 1 ELSE 0
    /\ history.some =>
        /\ todo = {}
        /\ \A r \in Repos : results[r].returned
        /\ \A w \in Workers : worker[w] = Idle
        /\ Len(Snapshot.commits) = ResultTotal(NumRepos)
        /\ ~ENABLED FromReturns

\* C20 witness: the snapshot is returned after a scan in which the last
\* repository was scanned by the second worker while the first was done
C20_Witness ==
    /\ history.some /\ returns = 1
    /\ bars[2].position >= 1
    /\ Len(Snapshot.commits) >= 3

\* the phase of repository r
Phase(r) ==
    CASE r \in todo -> "Pending"
      [] results[r].returned /\ history.some -> "Reported"
      [] results[r].returned /\ results[r].out.some -> "Completed"
      [] results[r].returned -> "Failed"
      [] \E w \in Workers : worker[w].repo = r /\ worker[w].pc = "open" -> "Opening"
      [] OTHER -> "Walking"

\* the steps from one phase to the next
PhaseOrder ==
    {<<"Pending", "Opening">>, <<"Opening", "Walking">>, <<"Opening", "Failed">>,
     <<"Walking", "Completed">>, <<"Walking", "Failed">>,
     <<"Completed", "Reported">>, <<"Failed", "Reported">>}

\* C25: every repository goes through Pending, Opening, Walking, then
\* Completed or Failed, then Reported, in this order and never back: Walking
\* only after the open and the seeding of the walk succeeded (a setup failure
\* leads from Opening to Failed), the result of a repository that is
\* Completed or Failed never changes again, so that never both are reached,
\* and a repository that Failed has no commit in the snapshot.
C25_PhasesInOrder ==
    /\ [](\A r \in Repos :
            /\ Phase(r) = "Walking" =>
                   /\ ~SetupFails(r)
                   /\ Cardinality(Scanning(r)) = 1
            /\ (Phase(r) = "Reported" /\ ~results[r].out.some) => SnapshotOf(r) = <<>>)
    /\ [][\A r \in Repos :
            /\ Phase(r)' = Phase(r) \/ <<Phase(r), Phase(r)'>> \in PhaseOrder
            /\ results[r].returned => results'[r] = results[r]
            /\ (SetupFails(r) /\ Phase(r) = "Opening") => Phase(r)' \in {"Opening", "Failed"}]_vars

\* C25 witness: one repository has been reported after a failure, the other
\* after a completed walk that contributed commits
C25_Witness ==
    /\ history.some
    /\ \E r \in Repos : Phase(r) = "Reported" /\ SetupFails(r)
    /\ \E r \in Repos : Phase(r) = "Reported" /\ results[r].out.some /\ SnapshotOf(r) # <<>>

\* ------------------------------------------------ claims on the fair scan
\* C21: when every walk is finite and the threads are scheduled fairly, a scan
\* whose pool was built eventually returns a snapshot, and by then every
\* repository has been handed out once and its scan has ended: nothing cancels
\* a scan and no repository is left out.
C21_ScanTerminates ==
    (do_main.pool = "built")
        ~> (history.some /\ \A r \in Repos : scans[r] = 1 /\ results[r].returned)

\* C21 witness: the snapshot is returned after a scan in which one repository
\* failed on an unresolvable id and another completed its walk
C21_Witness ==
    /\ history.some
    /\ \E r \in Repos : unresolved[r] # {}
    /\ \E r \in Repos : results[r].out.some /\ classified[r] # {}
    /\ \A r \in Repos : results[r].returned

\* -------------------------------------------- claims on the pool of threads
\* the repository a thread has stalled in, if one has
StalledRepo == IF registry.stalled.some THEN {registry.stalled.val.repo} ELSE {}

\* C22: with two or more threads in the pool, when one thread stalls forever
\* inside the scan of one repository, every other repository is still
\* eventually scanned by the remaining threads.
C22_StallBlocksOnlyItsRepository ==
    registry.stalled.some ~> (PoolRepos \ StalledRepo) \subseteq registry.scanned

\* C23: the pool has min(number of CPUs, 18) threads, and never are more
\* repositories being scanned at a time than that.
C23_PoolSizeBoundsConcurrency ==
    threadpool.threads.some =>
        /\ threadpool.threads.val =
               IF threadpool.num_cpus < 18 THEN threadpool.num_cpus ELSE 18
        /\ threadpool.running <= threadpool.num_cpus
        /\ threadpool.running <= 18

\* C23 witness: on a machine with more than 18 CPUs, 18 repositories are being
\* scanned and more are waiting
C23_Witness ==
    /\ threadpool.threads.some
    /\ threadpool.num_cpus > 18
    /\ threadpool.running = 18
    /\ threadpool.pending > 0

\* ------------------------------------------------- claims on the revwalk
\* the commits reached from c along first parents only
RECURSIVE FirstParentChain(_, _)
FirstParentChain(g, c) ==
    {c} \cup (IF g[c] = <<>> THEN {} ELSE FirstParentChain(g, g[c][1]))

\* C24: the strategy decides which commits the walk visits: under FirstParent
\* exactly the commits on the first-parent chain of HEAD, under AllParents
\* every commit reachable from HEAD; a commit reachable only through a second
\* parent is visited under AllParents and not under FirstParent.
C24_StrategyDecidesVisitedCommits ==
    git_revwalk.yielded.some =>
        SeqToSet(git_revwalk.yielded.val) =
            IF git_revwalk.strategy.val.val = "FirstParent"
            THEN FirstParentChain(git_revwalk.graph, WalkCommits)
            ELSE reachable(git_revwalk.graph, WalkCommits)

\* ------------------------------------------------- claims on the report
\* the one file that generate has written
ReportFile == CHOOSE f \in report.generated.val.files : TRUE
\* the five cells of the i-th commit of the snapshot
ReportRow(i) ==
    LET commit == report.model.commits[i]
    IN  <<time_as_str(commit.timestamp), report.model.repos[commit.repo].rel_path,
          commit.author, commit.summary, commit.message>>
ReportHeader ==
    <<<<"C", "o", "m", "m", "i", "t", " ", "D", "a", "t", "e">>,
      <<"L", "o", "c", "a", "l", " ", "P", "a", "t", "h", " ", "o", "f", " ", "R", "e", "p", "o">>,
      <<"C", "o", "m", "m", "i", "t", " ", "A", "u", "t", "h", "o", "r">>,
      <<"S", "u", "m", "m", "a", "r", "y">>,
      <<"M", "e", "s", "s", "a", "g", "e">>>>

\* C26: a written report holds the header row Commit Date, Local Path of
\* Repo, Commit Author, Summary, Message, then exactly one row of five cells
\* per commit of the snapshot, in snapshot order; in a spreadsheet the header
\* is row 0 and the cell of the i-th commit and column c is at row i, column c
\* (rows and columns counted from 0, commits from 1), and no other cell is set.
C26_ReportLayout ==
    (report.generated.some /\ report.generated.val.result = "Ok") =>
        LET n == Len(report.model.commits)
            content == ReportFile.content
        IN  /\ Cardinality(report.generated.val.files) = 1
            /\ IF ReportFile.format = "csv"
               THEN /\ Len(content) = n + 1
                    /\ content[1] = ReportHeader
                    /\ \A i \in 1..n : content[i + 1] = ReportRow(i)
               ELSE content =
                        {[row |-> 0, col |-> c, value |-> ReportHeader[c + 1]] : c \in 0..4}
                        \cup {[row |-> i, col |-> c, value |-> ReportRow(i)[c + 1]] :
                                 i \in 1..n, c \in 0..4}
C26_Witness ==
    /\ report.generated.some
    /\ report.generated.val.result = "Ok"
    /\ ReportFile.format = "ods"
    /\ Len(report.model.commits) = MaxReportCommits
    /\ report.model.commits[1] # report.model.commits[2]

\* the two digits of n < 100
TwoDigits(n) == Digits(n \div 10) \o Digits(n % 10)
\* an offset of o minutes in the form of the column schema: sign, two hour
\* digits, two minute digits
SignedHHMM(o) ==
    LET a == IF o < 0 THEN -o ELSE o
    IN  <<IF o < 0 THEN "-" ELSE "+">> \o TwoDigits(a \div 60) \o TwoDigits(a % 60)

\* C27: the date cell of every commit of a written report is 22 characters
\* long, YYYY-MM-DD HH:MM and the offset, and the offset is rendered as a sign
\* followed by exactly two hour digits and two minute digits.
C27_OffsetIsSignedHHMM ==
    (report.generated.some /\ report.generated.val.result = "Ok"
        /\ ReportFile.format = "csv") =>
        \A i \in 1..Len(report.model.commits) :
            LET date == ReportFile.content[i + 1][1]
            IN  /\ Len(date) = 22
                /\ SubSeq(date, 18, 22)
                       = SignedHHMM(report.model.commits[i].timestamp.offset_minutes)

\* the path is a non-empty stem, a dot and the extension e, in its last
\* component
HasExtension(path, e) ==
    \E k \in 1..(Len(path) - Len(e) - 1) :
        /\ SubSeq(path, k + 1, Len(path)) = <<".">> \o e
        /\ path[k] # "/"
        /\ \A j \in 1..Len(e) : e[j] \notin {".", "/"}
ReportFormats ==
    [csv |-> <<"c", "s", "v">>, ods |-> <<"o", "d", "s">>, xlsx |-> <<"x", "l", "s", "x">>]

\* C28: generate selects the format from the extension alone: with the
\* extension csv, ods or xlsx it writes (the disk permitting) one file of that
\* format at the path; with no extension or any other one it returns an error,
\* writes no file and does not read the commits.
C28_FormatFromExtension ==
    report.generated.some =>
        LET g == report.generated.val
            known == {f \in DOMAIN ReportFormats :
                         HasExtension(report.report_file_path, ReportFormats[f])}
        IN  IF known = {}
            THEN g.result = "Err" /\ g.files = {} /\ ~g.read
            ELSE /\ Cardinality(known) = 1
                 /\ g.result = (IF report.io_ok THEN "Ok" ELSE "Err")
                 /\ report.io_ok =>
                        /\ Cardinality(g.files) = 1
                        /\ ReportFile.path = report.report_file_path
                        /\ ReportFile.format \in known
                 /\ ~report.io_ok => g.files = {}
C28_Witness ==
    /\ report.generated.some
    /\ report.generated.val.result = "Err"
    /\ report.io_ok
    /\ report.report_file_path = <<".", "c", "s", "v">>
    /\ report.model.commits # <<>>

C30_InsertItemAppends ==
    [][table'.call.op = "insert_item" =>
          /\ Len(table'.items) = Len(table.items) + 1
          /\ table'.items = Append(table.items, table'.call.args[1])
          /\ Len(table'.rows_to_items) = Len(table.rows_to_items) + 1
          /\ table'.rows_to_items[Len(table'.rows_to_items)] = Len(table.items)
          /\ SubSeq(table'.rows_to_items, 1, Len(table.rows_to_items)) = table.rows_to_items]_vars
C30_Witness ==
    /\ table.call.op = "insert_item"
    /\ Len(table.items) = MaxItems
    /\ table.rows_to_items[1] # 0
    /\ table.rows_to_items[MaxItems] = MaxItems - 1

\* ------------------------------------ claims on commits from the future
\* C31: a commit whose time lies one or more whole days after now has a
\* negative whole-day age, passes the age test for every --days, does not
\* abort the walk, and is included when the author and message filters match.
C31_FutureCommitPassesAgeTest ==
    (verdict.some /\ subject.val.time.seconds - DaySecs
                        >= now.secs + (IF now.nanos > 0 THEN 1 ELSE 0)) =>
        /\ AgeDays < 0
        /\ ~verdict.val.abort
        /\ verdict.val.include <=> (AuthorPasses /\ MessagePasses)

\* the walk of r resolves every id and yields commit times that never increase
WalkNonIncreasing(r) ==
    LET walk == disk[r].walk
    IN  /\ \A i \in DOMAIN walk : walk[i].some
        /\ \A i \in 1..(Len(walk) - 1) :
               walk[i].val.time.seconds >= walk[i + 1].val.time.seconds

\* C32: for a walk that yields commits in non-increasing commit-time order,
\* what the closure returns (it stops at the first commit failing the age
\* test) is the list of all commits of the walk that the classifier includes.
C32_EarlyStopLosesNothing ==
    \A r \in DOMAIN disk :
        (results[r].returned /\ results[r].out.some /\ WalkNonIncreasing(r)) =>
            results[r].out.val = IncludedBefore(r, Len(disk[r].walk) + 1)

\* the step is one event handled by the table
EventStep == table'.call.op = "on_event"
\* what the handler of the event returned
EventResult == table'.call.returned.val

\* C34: on a non-empty table with an on_select callback and no column
\* selection active, an event leads to a call of on_select if and only if it
\* changes the focused row, and the callback is given the new focused row and
\* the storage index of the item shown in that row.
C34_OnSelectIffFocusChanges ==
    [][(EventStep /\ table.items # <<>> /\ table.on_select /\ ~table.column_select) =>
          /\ (EventResult.callback.some /\ EventResult.callback.val.cb = "on_select")
                 <=> table'.focus # table.focus
          /\ EventResult.callback.some =>
                 /\ EventResult.callback.val.row = table'.focus
                 /\ table'.focus < Len(table'.rows_to_items)
                 /\ EventResult.callback.val.index = table'.rows_to_items[table'.focus + 1]]_vars

\* C36: whenever the table is non-empty the focus is a valid row, so row() and
\* item() both return a value and item() is the index of an existing item.
C36_FocusIsValidRow ==
    table.items # <<>> =>
        /\ table.focus < Len(table.rows_to_items)
        /\ row(table).some
        /\ item(table).some
        /\ item(table).val < Len(table.items)

\* the rows of the table before the step without the one that showed item i,
\* with the indices of the later items moved down by one
RowsWithout(i) ==
    LET kept == SelectSeq(table.rows_to_items, LAMBDA v : v # i)
    IN  [k \in 1..Len(kept) |-> IF kept[k] > i THEN kept[k] - 1 ELSE kept[k]]

\* C38: the row-to-item mapping is always a permutation of the storage
\* indices 0..len-1; remove_item(i) with i < len returns the item at storage
\* index i, takes it out of the storage and leaves the other items in their
\* relative row order; remove_item(i) with i >= len returns nothing and
\* changes nothing.
C38_RowsArePermutation ==
    /\ [](/\ Len(table.rows_to_items) = Len(table.items)
          /\ SeqToSet(table.rows_to_items) = 0..(Len(table.items) - 1))
    /\ [][table'.call.op = "remove_item" =>
             LET i == table'.call.args[1]
             IN  IF i < Len(table.items)
                 THEN /\ table'.call.returned = Some(table.items[i + 1])
                      /\ table'.items = SubSeq(table.items, 1, i)
                                        \o SubSeq(table.items, i + 2, Len(table.items))
                      /\ table'.rows_to_items = RowsWithout(i)
                 ELSE /\ table'.call.returned = None
                      /\ [table' EXCEPT !.call = table.call] = table]_vars
C38_Witness ==
    /\ table.call.op = "remove_item"
    /\ table.call.args = <<0>>
    /\ table.call.returned = Some("b")
    /\ table.items = <<"a", "b">>
    /\ table.rows_to_items = <<1, 0>>

\* ------------------------------------- claims on the columns of the table
\* C39: with distinct column keys, the column index map has exactly the keys
\* of the columns in the column list and sends each key to the position of its
\* column; a removed column has no entry.
C39_ColumnIndexIsPosition ==
    /\ DOMAIN table.column_indicies = {table.columns[j].column : j \in 1..Len(table.columns)}
    /\ \A j \in 1..Len(table.columns) :
           table.column_indicies[table.columns[j].column] = j - 1
C39_Witness ==
    /\ table.call.op = "remove_column"
    /\ table.call.args = <<0>>
    /\ Len(table.columns) = MaxColumns - 1
    /\ table.columns[1].column = "Summary"
    /\ table.column_indicies["Summary"] = 0

\* ------------------------------------------------ claims on the list view
FocusKeys == {"Up", "Down", "PageUp", "PageDown", "Home", "End"}
\* C37: a key event Up, Down, PageUp, PageDown, Home or End on any list, the
\* empty one included, neither underflows nor leaves the focus out of range:
\* after it the focus is 0 on the empty list and less than the number of
\* items otherwise, and item() does not index past the end.
C37_KeysKeepFocusInRange ==
    (/\ list_view.call.op = "on_event"
     /\ list_view.call.args[1].type = "key"
     /\ list_view.call.args[1].key \in FocusKeys)
    => /\ ~list_view.panicked
       /\ list_item(list_view).some
       /\ IF list_view.items = <<>> THEN list_view.focus = 0
          ELSE list_view.focus < Len(list_view.items)

\* ------------------------------------------- claims on the user interface
\* C33: for every configuration, once the interface is initialised each of
\* the keys q, k and j has its built-in command as its only callback, and a
\* press of one of them runs that built-in and no custom command.
C33_BuiltinKeysRunOnlyBuiltins ==
    siv.phase = "shown" =>
        /\ \A ch \in BuiltinKeys : siv.global_callbacks[ch] = <<BuiltinCallback(ch)>>
        /\ (siv.call.event.some /\ siv.call.event.val.type = "char"
            /\ siv.call.event.val.key \in BuiltinKeys)
           => siv.call.ran = <<Ran(BuiltinCallback(siv.call.event.val.key), None)>>
C33_Witness ==
    /\ siv.phase = "shown"
    /\ \E i \in 1..Len(siv.config.custom_command) : siv.config.custom_command[i].key = "k"
    /\ siv.diff_view.commit.some
    /\ siv.call.event = Some(CharEvent("k"))
    /\ siv.call.ran = <<Ran(BuiltinCallback("k"), None)>>

HasPattern(s) == \E i \in 1..(Len(s) - 1) : s[i] = "{" /\ s[i + 1] = "}"
Occurrences(s) == Cardinality({i \in 1..(Len(s) - 1) : s[i] = "{" /\ s[i + 1] = "}"})
FocusedCommit == siv.table.items[siv.table.rows_to_items[siv.table.focus + 1] + 1]
\* C35: once the interface is initialised and after every event, the DiffView
\* holds the commit focused in the table, every custom command that ran was
\* spawned on that commit with each "{}" of its args replaced by the commit's
\* id, and the commit bar reads "Commit i of n" with i the position of that
\* commit and 1 <= i <= n; with no commits the DiffView holds none and a
\* custom command spawns nothing.
C35_DiffViewHoldsFocusedCommit ==
    siv.phase = "shown" =>
        /\ ~siv.panicked
        /\ IF siv.commits = 0
           THEN /\ siv.diff_view.commit = None
                /\ \A k \in 1..Len(siv.call.ran) : siv.call.ran[k].executed = None
           ELSE /\ siv.table.focus < siv.commits
                /\ siv.diff_view.commit = Some(FocusedCommit)
                /\ FocusedCommit = siv.model[siv.table.focus + 1]
                /\ siv.commit_bar = <<"Commit ">> \o Digits(siv.table.focus + 1) \o <<" of ">>
                                      \o Digits(siv.commits) \o <<" - ">>
                                      \o FocusedCommit.repo.rel_path
                /\ 1 <= siv.table.focus + 1 /\ siv.table.focus + 1 <= siv.commits
                /\ \A k \in 1..Len(siv.call.ran) :
                       siv.call.ran[k].kind = "custom" =>
                           LET cmd == siv.global_callbacks[siv.call.ran[k].ch][k].cmd.val
                               given == unwrap_or(cmd.args, <<>>)
                               spawned == siv.call.ran[k].executed
                           IN  /\ spawned.some
                               /\ spawned.val.exec = cmd.executable
                               /\ spawned.val.current_dir = FocusedCommit.repo.abs_path
                               /\ \A a \in 1..Len(spawned.val.args) :
                                      ~HasPattern(spawned.val.args[a])
                               /\ Cardinality({a \in 1..Len(spawned.val.args) :
                                                   spawned.val.args[a] = FocusedCommit.commit_id})
                                  = Occurrences(given)
C35_Witness ==
    /\ siv.phase = "shown"
    /\ siv.commits = MaxItems
    /\ siv.table.focus = 1
    /\ siv.diff_view.commit = Some(UiCommit(2))
    /\ siv.call.event = Some(CharEvent("i"))
    /\ Len(siv.call.ran) = 2
    /\ siv.call.ran[1].executed = Some([exec |-> <<"g">>, current_dir |-> <<"/", "r", "1">>,
                                        args |-> <<<<"c", "2">>, <<"c", "2">> >>])
C35_WitnessNoCommits ==
    /\ siv.phase = "shown"
    /\ siv.commits = 0
    /\ siv.call.event = Some(CharEvent("i"))
    /\ Len(siv.call.ran) = 1
    /\ siv.call.ran[1].executed = None

====
